---- MODULE Spec2Model ----
(***************************************************************************)
(* Model of the study application's spaced-repetition scheduler            *)
(* (src/src/utils/spaced-repetition.ts) and of its streak tracker and      *)
(* score aggregators (src/src/utils/scoring.ts), of its storage wrapper    *)
(* (src/src/utils/storage.ts), of the onboarding diagnostic and of the     *)
(* rating handler of the flashcard view running in two tabs.               *)
(*                                                                         *)
(* Numbers.  easeFactor is a double in the source; every value it takes is *)
(* 2.5 or 1.3 plus a sum of the four SM-2 deltas, all multiples of 0.01,   *)
(* so the model keeps it in hundredths (250 = 2.5).  Math.round is         *)
(* round-half-up; interval * easeFactor lands on an exact half (where a    *)
(* double could fall on either side) only from the seventh review of a     *)
(* card on, beyond the histories explored here.                            *)
(*                                                                         *)
(* Time is counted in ticks, TicksPerDay ticks to a day; an ISO-8601       *)
(* string is the record [date, time] that toISOString prints and DateParse *)
(* reads back.  The local time zone is UTC, without daylight saving, so a  *)
(* calendar day is always TicksPerDay ticks.  One call reads the clock     *)
(* once: calls are synchronous and return within a tick.                   *)
(***************************************************************************)
EXTENDS Integers, Sequences, FiniteSets, TLC

\* ---------------------------------------------------------------- bounds
TicksPerDay == 2
MaxTime == 3
MaxReviews == 5
MaxArgInterval == 10
MaxArgRepetitions == 3
MaxListLen == 3
MaxDays == 4
MaxQuizScores == 2
MaxQuestions == 3
MaxPairs == 3
MaxRatings == 3
ExamSeconds == 2
MaxMatchItems == 2

CardIds == {"fc-001", "fc-002"}

\* the flashcards of the data file, in its order
allFlashcards == <<"fc-001", "fc-002", "fc-003">>

\* the labels of the four rating buttons
RatingLabels == {"Again", "Hard", "Good", "Easy"}

\* ------------------------------------------------------------- constants
\* enum Quality
Again == 0
Hard == 2
Good == 3
Easy == 5
Quality == {Again, Hard, Good, Easy}

InitialEase == 250
MinEase == 130
PassingScore == 675

VARIABLES
    now,        \* the wall clock read by `new Date()`, in ticks
    schedules,  \* the CardSchedule records held by the caller, in list order
    log,        \* the review events of the held schedule since its creation;
                \* with several tabs, their storage reads and writes in order
    call,       \* the most recent call: its arguments, clock and result
    streak,     \* the StreakData stored under STORAGE_KEYS.STREAK, or null
    updatedDays,\* the dates on which the stored StreakData has changed
    reupdated,  \* some date has seen the stored StreakData change twice
    skewed,     \* the clock has been set back at least once
    onboarding, \* the state of the Onboarding component
    storedProgress, \* storage.load(STORAGE_KEYS.PROGRESS, []): the records
    store,      \* localStorage: the text stored under each key
    tabs,       \* the locals of each tab that is inside handleRating
    flashcards, \* the state of the Flashcards component
    practiceExam, \* the state of the PracticeExam component and its timer
    quizEngine, \* the state of QuizEngine and of its MatchingQuestionView
    history     \* the lists stored under STORAGE_KEYS.EXAM_RESULTS (exam)
                \* and STORAGE_KEYS.QUIZ_HISTORY (quiz)

streakVars == <<streak, updatedDays, reupdated, skewed>>

appVars == <<onboarding, storedProgress, store, tabs>>

viewVars == <<flashcards, practiceExam, quizEngine, history>>

vars == <<now, schedules, log, call, streakVars, appVars, viewVars>>

\* the value storage.load returns for a key that is not stored
null == [isNull |-> TRUE]

\* ------------------------------------------------------- dates and times
\* Date.prototype.toISOString: a date part and a time-of-day part
toISOString(t) == [date |-> t \div TicksPerDay, time |-> t % TicksPerDay]

\* new Date(isoString)
DateParse(s) == s.date * TicksPerDay + s.time

\* mutant: the interval is added to the clock's smallest unit, not to its day
SetDatePlus_Ticks(t, n) == t + n

\* d.setDate(d.getDate() + n): n whole days later, same time of day
SetDatePlus(t, n) ==
    LET s == toISOString(t)
    IN  DateParse([date |-> s.date + n, time |-> s.time])

\* Math.round on x/100
MathRound100(x) == (x + 50) \div 100

\* mutant: a new card starts with the first rung of the interval ladder
createNewCardSchedule_Interval1(cardId, clock) ==
    [cardId      |-> cardId,
     easeFactor  |-> InitialEase,
     interval    |-> 1,
     repetitions |-> 0,
     nextReview  |-> toISOString(clock),
     lastReview  |-> toISOString(clock)]

\* ------------------------------------------------- createNewCardSchedule
createNewCardSchedule(cardId, clock) ==
    [cardId      |-> cardId,
     easeFactor  |-> InitialEase,
     interval    |-> 0,
     repetitions |-> 0,
     nextReview  |-> toISOString(clock),
     lastReview  |-> toISOString(clock)]

\* mutant: the floor at 1.3 is missing
NextEaseFactor_NoFloor(easeFactor, quality) ==
    easeFactor + (10 - (5 - quality) * (8 + (5 - quality) * 2))

\* mutant: the constant 0.1 of the SM-2 formula is missing
NextEaseFactor_NoBonus(easeFactor, quality) ==
    LET ef == easeFactor + (0 - (5 - quality) * (8 + (5 - quality) * 2))
    IN  IF ef < MinEase THEN MinEase ELSE ef

\* mutant: the quadratic term of the SM-2 formula is missing
NextEaseFactor_Linear(easeFactor, quality) ==
    LET ef == easeFactor + (10 - (5 - quality) * 8)
    IN  IF ef < MinEase THEN MinEase ELSE ef

\* mutant: the floor is 1.0
NextEaseFactor_FloorOne(easeFactor, quality) ==
    LET ef == easeFactor + (10 - (5 - quality) * (8 + (5 - quality) * 2))
    IN  IF ef < 100 THEN 100 ELSE ef

\* --------------------------------------------------- calculateNextReview
\* easeFactor + (0.1 - (5 - q) * (0.08 + (5 - q) * 0.02)), floored at 1.3
NextEaseFactor(easeFactor, quality) ==
    LET ef == easeFactor + (10 - (5 - quality) * (8 + (5 - quality) * 2))
    IN  IF ef < MinEase THEN MinEase ELSE ef

\* mutant: the lapse threshold is Hard, so Hard counts as a success
NextRepetitions_HardPasses(repetitions, quality) ==
    IF quality < Hard THEN 0 ELSE repetitions + 1

NextRepetitions(repetitions, quality) ==
    IF quality < Good THEN 0 ELSE repetitions + 1

\* mutant: the second rung (6 days) is missing
NextInterval_NoSix(interval, newReps, newEase, quality) ==
    IF quality < Good THEN 1
    ELSE IF newReps = 1 THEN 1
    ELSE MathRound100(interval * newEase)

\* mutant: the first rung (1 day) is missing
NextInterval_NoFirst(interval, newReps, newEase, quality) ==
    IF quality < Good THEN 1
    ELSE IF newReps = 2 THEN 6
    ELSE MathRound100(interval * newEase)

\* mutant: only Again forces the interval back to 1
NextInterval_HardKeeps(interval, newReps, newEase, quality) ==
    IF quality < Hard THEN 1
    ELSE IF newReps = 1 THEN 1
    ELSE IF newReps = 2 THEN 6
    ELSE MathRound100(interval * newEase)

\* newEase and newReps are the values already updated by this review
NextInterval(interval, newReps, newEase, quality) ==
    IF quality < Good THEN 1
    ELSE IF newReps = 1 THEN 1
    ELSE IF newReps = 2 THEN 6
    ELSE MathRound100(interval * newEase)

\* mutant: the interval is computed with the ease factor before this review
calculateNextReview_OldEase(schedule, quality, clock) ==
    LET easeFactor  == NextEaseFactor(schedule.easeFactor, quality)
        repetitions == NextRepetitions(schedule.repetitions, quality)
        interval    == NextInterval(schedule.interval, repetitions,
                                    schedule.easeFactor, quality)
    IN  [cardId      |-> schedule.cardId,
         easeFactor  |-> easeFactor,
         interval    |-> interval,
         repetitions |-> repetitions,
         nextReview  |-> toISOString(SetDatePlus(clock, interval)),
         lastReview  |-> toISOString(clock)]

calculateNextReview(schedule, quality, clock) ==
    LET easeFactor  == NextEaseFactor(schedule.easeFactor, quality)
        repetitions == NextRepetitions(schedule.repetitions, quality)
        interval    == NextInterval(schedule.interval, repetitions,
                                    easeFactor, quality)
    IN  [cardId      |-> schedule.cardId,
         easeFactor  |-> easeFactor,
         interval    |-> interval,
         repetitions |-> repetitions,
         nextReview  |-> toISOString(SetDatePlus(clock, interval)),
         lastReview  |-> toISOString(clock)]

\* mutant: the fields are updated on the argument object itself
ArgumentAfterReview_InPlace(schedule, quality, clock) ==
    [schedule EXCEPT
        !.easeFactor  = NextEaseFactor(schedule.easeFactor, quality),
        !.repetitions = NextRepetitions(schedule.repetitions, quality)]

\* the argument object as the call leaves it: the function copies the three
\* fields into locals and never assigns to `schedule`
ArgumentAfterReview(schedule, quality, clock) == schedule

\* mutant: the date compared with the clock is lastReview
isDueForReview_LastReview(schedule, clock) ==
    DateParse(schedule.lastReview) <= clock

\* mutant: a card is due only strictly after its nextReview
isDueForReview_Strict(schedule, clock) == DateParse(schedule.nextReview) < clock

\* ------------------------------------------- isDueForReview, getDueCards
isDueForReview(schedule, clock) == DateParse(schedule.nextReview) <= clock

getDueCards(list, clock) ==
    SelectSeq(list, LAMBDA s : isDueForReview(s, clock))

\* ---------------------------------------------------------------- states
\* A caller creates one schedule and reviews it again and again, keeping the
\* returned record each time (the test suite's `schedule = calculateNextReview(
\* schedule, q)`), while the clock advances.
StreakInit ==
    /\ streak = null
    /\ updatedDays = {}
    /\ reupdated = FALSE
    /\ skewed = FALSE

\* the components as they are mounted: useState's initial values, the
\* Due Only filter off, no exam and no quiz begun
ViewInit ==
    /\ flashcards = [dueOnly       |-> FALSE,
                     currentIndex  |-> 0,
                     isFlipped     |-> FALSE,
                     sessionDone   |-> FALSE,
                     sessionResult |-> [totalReviewed |-> 0,
                                        ratings |-> [l \in RatingLabels |-> 0]],
                     filteredCards |-> allFlashcards,
                     atStart       |-> {allFlashcards[i] :
                                           i \in 1..Len(allFlashcards)},
                     presented     |-> {allFlashcards[1]},
                     rated         |-> 0]
    /\ practiceExam = [phase |-> "setup"]
    /\ quizEngine = [phase |-> "setup"]
    /\ history = [exam |-> <<>>, quiz |-> <<>>]

\* nothing stored, the onboarding not begun, no handler running
AppInit ==
    /\ onboarding = [phase |-> "welcome", questions |-> <<>>, answers |-> <<>>]
    /\ storedProgress = <<>>
    /\ store = <<>>
    /\ tabs = <<>>
    /\ ViewInit

Init ==
    /\ now = 0
    /\ schedules = <<>>
    /\ log = <<>>
    /\ call = [op |-> "none"]
    /\ StreakInit
    /\ AppInit

\* the clock advances
Tick ==
    /\ now < MaxTime
    /\ now' = now + 1
    /\ UNCHANGED <<viewVars, schedules, log, call, streakVars, appVars>>

\* createNewCardSchedule(cardId)
Create(cardId) ==
    /\ schedules = <<>>
    /\ LET created == createNewCardSchedule(cardId, now)
       IN  /\ schedules' = <<created>>
           /\ call' = [op |-> "createNewCardSchedule", cardId |-> cardId,
                       at |-> now, result |-> created]
    /\ UNCHANGED <<viewVars, now, log, streakVars, appVars>>

\* calculateNextReview(schedules[i], quality); the caller keeps the result
Review(i, quality) ==
    /\ i \in 1..Len(schedules)
    /\ Len(log) < MaxReviews
    /\ LET existing == schedules[i]
           updated  == calculateNextReview(existing, quality, now)
       IN  /\ schedules' = [schedules EXCEPT ![i] = updated]
           /\ log' = Append(log, [quality     |-> quality,
                                  easeFactor  |-> updated.easeFactor,
                                  interval    |-> updated.interval,
                                  repetitions |-> updated.repetitions])
           /\ call' = [op |-> "calculateNextReview", arg |-> existing,
                       quality |-> quality, at |-> now, result |-> updated,
                       argAfter |-> ArgumentAfterReview(existing, quality, now)]
    /\ UNCHANGED <<viewVars, now, streakVars, appVars>>

\* getDueCards(schedules), and isDueForReview of each element
QueryDue ==
    /\ call' = [op |-> "getDueCards", arg |-> schedules, at |-> now,
                due |-> [i \in 1..Len(schedules) |->
                            isDueForReview(schedules[i], now)],
                result |-> getDueCards(schedules, now)]
    /\ UNCHANGED <<viewVars, now, schedules, log, streakVars, appVars>>

Next ==
    \/ Tick
    \/ \E c \in CardIds : Create(c)
    \/ \E q \in Quality : Review(1, q)
    \/ QueryDue

Spec == Init /\ [][Next]_vars

\* ------------------------------------------- one call on arbitrary input
\* calculateNextReview accepts any CardSchedule (the test suite hands it a
\* schedule with repetitions and interval set by hand).
ArgEase == {MinEase, 140, 210, InitialEase, 330}

ArgSchedules ==
    [cardId      : CardIds,
     easeFactor  : ArgEase,
     interval    : 0..MaxArgInterval,
     repetitions : 0..MaxArgRepetitions,
     nextReview  : {toISOString(0)},
     lastReview  : {toISOString(0)}]

InitAny ==
    /\ now \in 0..MaxTime
    /\ \E s \in ArgSchedules : schedules = <<s>>
    /\ log = <<>>
    /\ call = [op |-> "none"]
    /\ StreakInit
    /\ AppInit

NextAny == \E q \in Quality : call.op = "none" /\ Review(1, q)

SpecAny == InitAny /\ [][NextAny]_vars

\* getDueCards accepts any list of schedules
DueArgSchedules ==
    { [createNewCardSchedule(c, 0) EXCEPT !.nextReview = toISOString(t)] :
        c \in CardIds, t \in 0..(MaxTime + 1) }

InitDue ==
    /\ now \in 0..MaxTime
    /\ \E n \in 0..MaxListLen : schedules \in [1..n -> DueArgSchedules]
    /\ log = <<>>
    /\ call = [op |-> "none"]
    /\ StreakInit
    /\ AppInit

NextDue == call.op = "none" /\ QueryDue

SpecDue == InitDue /\ [][NextDue]_vars


\* ---------------------------------------------------------- updateStreak
\* isoString.split('T')[0]: the date part of a timestamp
SplitDate(s) == s.date

\* new Date('YYYY-MM-DD'): midnight UTC of that date
DateOnlyParse(d) == DateParse([date |-> d, time |-> 0])

\* mutant: the two dates are subtracted the wrong way round
DiffDays_Swapped(today, lastStudyDate) ==
    (DateOnlyParse(lastStudyDate) - DateOnlyParse(today)) \div TicksPerDay

\* Math.floor((todayDate.getTime() - lastDate.getTime()) / one day)
DiffDays(today, lastStudyDate) ==
    (DateOnlyParse(today) - DateOnlyParse(lastStudyDate)) \div TicksPerDay

Max(a, b) == IF a > b THEN a ELSE b

\* mutant: the early return for a date already counted is missing
updateStreak_NoSameDay(current, clock) ==
    LET today == SplitDate(toISOString(clock))
    IN  IF current = null
        THEN [currentStreak |-> 1, longestStreak |-> 1, lastStudyDate |-> today]
        ELSE IF DiffDays(today, current.lastStudyDate) = 1
        THEN [currentStreak |-> current.currentStreak + 1,
              longestStreak |-> Max(current.currentStreak + 1,
                                    current.longestStreak),
              lastStudyDate |-> today]
        ELSE [currentStreak |-> 1,
              longestStreak |-> current.longestStreak,
              lastStudyDate |-> today]

\* mutant: a broken streak also resets the longest streak
updateStreak_ResetLongest(current, clock) ==
    LET today == SplitDate(toISOString(clock))
    IN  IF current = null
        THEN [currentStreak |-> 1, longestStreak |-> 1, lastStudyDate |-> today]
        ELSE IF current.lastStudyDate = today
        THEN current
        ELSE IF DiffDays(today, current.lastStudyDate) = 1
        THEN [currentStreak |-> current.currentStreak + 1,
              longestStreak |-> Max(current.currentStreak + 1,
                                    current.longestStreak),
              lastStudyDate |-> today]
        ELSE [currentStreak |-> 1,
              longestStreak |-> 1,
              lastStudyDate |-> today]

\* mutant: a continued streak leaves the longest streak as it was
updateStreak_NoMax(current, clock) ==
    LET today == SplitDate(toISOString(clock))
    IN  IF current = null
        THEN [currentStreak |-> 1, longestStreak |-> 1, lastStudyDate |-> today]
        ELSE IF current.lastStudyDate = today
        THEN current
        ELSE IF DiffDays(today, current.lastStudyDate) = 1
        THEN [currentStreak |-> current.currentStreak + 1,
              longestStreak |-> current.longestStreak,
              lastStudyDate |-> today]
        ELSE [currentStreak |-> 1,
              longestStreak |-> current.longestStreak,
              lastStudyDate |-> today]

\* mutant: the first study day does not count
updateStreak_FirstZero(current, clock) ==
    LET today == SplitDate(toISOString(clock))
    IN  IF current = null
        THEN [currentStreak |-> 0, longestStreak |-> 1, lastStudyDate |-> today]
        ELSE IF current.lastStudyDate = today
        THEN current
        ELSE IF DiffDays(today, current.lastStudyDate) = 1
        THEN [currentStreak |-> current.currentStreak + 1,
              longestStreak |-> Max(current.currentStreak + 1,
                                    current.longestStreak),
              lastStudyDate |-> today]
        ELSE [currentStreak |-> 1,
              longestStreak |-> current.longestStreak,
              lastStudyDate |-> today]

\* mutant: any later date continues the streak
updateStreak_LenientGap(current, clock) ==
    LET today == SplitDate(toISOString(clock))
    IN  IF current = null
        THEN [currentStreak |-> 1, longestStreak |-> 1, lastStudyDate |-> today]
        ELSE IF current.lastStudyDate = today
        THEN current
        ELSE IF DiffDays(today, current.lastStudyDate) >= 1
        THEN [currentStreak |-> current.currentStreak + 1,
              longestStreak |-> Max(current.currentStreak + 1,
                                    current.longestStreak),
              lastStudyDate |-> today]
        ELSE [currentStreak |-> 1,
              longestStreak |-> current.longestStreak,
              lastStudyDate |-> today]

updateStreak(current, clock) ==
    LET today == SplitDate(toISOString(clock))
    IN  IF current = null
        THEN [currentStreak |-> 1, longestStreak |-> 1, lastStudyDate |-> today]
        ELSE IF current.lastStudyDate = today
        THEN current
        ELSE IF DiffDays(today, current.lastStudyDate) = 1
        THEN [currentStreak |-> current.currentStreak + 1,
              longestStreak |-> Max(current.currentStreak + 1,
                                    current.longestStreak),
              lastStudyDate |-> today]
        ELSE [currentStreak |-> 1,
              longestStreak |-> current.longestStreak,
              lastStudyDate |-> today]

\* ------------------------------------------------------ the study streak
\* The clock shows any time of the days 0..MaxDays-1 and may be set forward
\* (a gap) or back (clock skew) between two study actions.
StreakClock == 0..(MaxDays * TicksPerDay - 1)

SetClock(t) ==
    /\ t # now
    /\ now' = t
    /\ skewed' = (skewed \/ t < now)
    /\ UNCHANGED <<viewVars, schedules, log, call, streak, updatedDays, reupdated, appVars>>

\* the end of every study action (a rated flashcard, a finished quiz, a
\* submitted exam): load the streak, update it, save it
StudyAction ==
    LET currentStreak == streak
        saved         == updateStreak(currentStreak, now)
        today         == SplitDate(toISOString(now))
    IN  /\ streak' = saved
        /\ call' = [op |-> "updateStreak", arg |-> currentStreak, at |-> now,
                    result |-> saved]
        /\ updatedDays' = IF saved # currentStreak
                          THEN updatedDays \cup {today} ELSE updatedDays
        /\ reupdated' = (reupdated \/
                            (saved # currentStreak /\ today \in updatedDays))
        /\ UNCHANGED <<viewVars, now, schedules, log, skewed, appVars>>

NextStreak ==
    \/ \E t \in StreakClock : SetClock(t)
    \/ StudyAction

SpecStreak == Init /\ [][NextStreak]_vars


\* ------------------------------------------- calculateReadinessScore etc.
\* Scores and weights are whole numbers (percentages); a mean is kept as the
\* exact fraction [num, den], and Math.round(a / b) is taken on the fraction.

\* scores.reduce((a, b) => a + b, 0)
RECURSIVE Reduce(_)
Reduce(q) == IF q = <<>> THEN 0 ELSE q[1] + Reduce(Tail(q))

\* mutant: Math.floor in place of Math.round
RoundDiv_Floor(a, b) == a \div b

\* Math.round(a / b) for b > 0: the nearest integer, a half rounds up
RoundDiv(a, b) == (2 * a + b) \div (2 * b)

\* Object.entries(obj): the [key, value] pairs of a record-like object
RECURSIVE ObjectEntries(_)
ObjectEntries(obj) ==
    IF DOMAIN obj = {} THEN <<>>
    ELSE LET k == CHOOSE x \in DOMAIN obj : TRUE
         IN  <<[key |-> k, value |-> obj[k]]>> \o
             ObjectEntries([x \in DOMAIN obj \ {k} |-> obj[x]])

\* the body of `for (const [domain, weight] of Object.entries(domainWeights))`
RECURSIVE ReadinessLoop(_, _, _, _)
ReadinessLoop(entries, domainScores, weightedSum, totalWeight) ==
    IF entries = <<>>
    THEN [weightedSum |-> weightedSum, totalWeight |-> totalWeight]
    ELSE LET domain == entries[1].key
             weight == entries[1].value
             score  == IF domain \in DOMAIN domainScores
                       THEN domainScores[domain] ELSE 0
         IN  ReadinessLoop(Tail(entries), domainScores,
                           weightedSum + score * weight, totalWeight + weight)

\* mutant: the weights are taken to sum to 100
calculateReadinessScore_Per100(domainScores, domainWeights) ==
    LET sums == ReadinessLoop(ObjectEntries(domainWeights), domainScores, 0, 0)
    IN  IF sums.totalWeight > 0
        THEN RoundDiv(sums.weightedSum, 100)
        ELSE 0

calculateReadinessScore(domainScores, domainWeights) ==
    LET sums == ReadinessLoop(ObjectEntries(domainWeights), domainScores, 0, 0)
    IN  IF sums.totalWeight > 0
        THEN RoundDiv(sums.weightedSum, sums.totalWeight)
        ELSE 0

\* p.quizScores.reduce(...) / p.quizScores.length, as an exact fraction
MeanOf(quizScores) == [num |-> Reduce(quizScores), den |-> Len(quizScores)]

\* progress.filter(p => p.quizScores.length > 0).map(mean)
RECURSIVE ObjectiveMeans(_)
ObjectiveMeans(progress) ==
    IF progress = <<>> THEN <<>>
    ELSE IF Len(progress[1].quizScores) > 0
         THEN <<MeanOf(progress[1].quizScores)>> \o ObjectiveMeans(Tail(progress))
         ELSE ObjectiveMeans(Tail(progress))

\* in a mutant, a record without scores counts as a mean of 0
RECURSIVE ObjectiveMeans_CountEmpty(_)
ObjectiveMeans_CountEmpty(progress) ==
    IF progress = <<>> THEN <<>>
    ELSE IF Len(progress[1].quizScores) > 0
         THEN <<MeanOf(progress[1].quizScores)>> \o
              ObjectiveMeans_CountEmpty(Tail(progress))
         ELSE <<[num |-> 0, den |-> 1]>> \o
              ObjectiveMeans_CountEmpty(Tail(progress))

\* scores.reduce((a, b) => a + b, 0) over fractions
RECURSIVE ReduceMeans(_)
ReduceMeans(means) ==
    IF means = <<>> THEN [num |-> 0, den |-> 1]
    ELSE LET a == means[1]
             b == ReduceMeans(Tail(means))
         IN  [num |-> a.num * b.den + b.num * a.den, den |-> a.den * b.den]

\* mutant: the mean is taken over every record of the list
calculateDomainScore_CountEmpty(progress) ==
    IF Len(progress) = 0 THEN 0
    ELSE LET scores == ObjectiveMeans_CountEmpty(progress)
             total  == ReduceMeans(scores)
         IN  RoundDiv(total.num, total.den * Len(scores))

calculateDomainScore(progress) ==
    IF Len(progress) = 0 THEN 0
    ELSE LET scores == ObjectiveMeans(progress)
         IN  IF Len(scores) = 0 THEN 0
             ELSE LET total == ReduceMeans(scores)
                  IN  RoundDiv(total.num, total.den * Len(scores))

\* a whole number as a JavaScript number
Whole(n) == [num |-> n, den |-> 1]

\* mutant: a mean of exactly 80 is not yet mastered
calculateMastery_Strict(scores) ==
    IF Len(scores) = 0 THEN "not_started"
    ELSE LET total == ReduceMeans(scores)
         IN  IF total.num > 80 * total.den * Len(scores)
             THEN "mastered" ELSE "in_progress"

\* scores are numbers, kept as exact fractions; avg >= 80 is compared on
\* avg = total / scores.length without dividing
calculateMastery(scores) ==
    IF Len(scores) = 0 THEN "not_started"
    ELSE LET total == ReduceMeans(scores)
         IN  IF total.num >= 80 * total.den * Len(scores)
             THEN "mastered" ELSE "in_progress"

\* ------------------------------------------ one call of an aggregator
DomainIds == {"1.0", "2.0", "3.0"}
DomainScoreValues == {0, 50, 63, 100}
DomainWeightValues == {0, 25, 75}

\* Record<string, number> over some of the domains
DomainScoreMaps == UNION {[D -> DomainScoreValues] : D \in SUBSET DomainIds}
DomainWeightMaps == UNION {[D -> DomainWeightValues] : D \in SUBSET DomainIds}

ObjectiveIds == <<"1.1", "1.2", "1.3">>
QuizScoreValues == {0, 70, 90}
QuizScoreLists == UNION {[1..k -> QuizScoreValues] : k \in 0..MaxQuizScores}

\* ObjectiveProgress[] of the first objectives, one record per list of
\* quizScores (the fields the aggregator reads)
ProgressOf(qs) ==
    [i \in 1..Len(qs) |-> [objectiveId |-> ObjectiveIds[i],
                           quizScores  |-> qs[i]]]

\* one call per behaviour: the functions keep no state between calls
ReadinessCall ==
    /\ call.op = "none"
    /\ \E domainScores \in DomainScoreMaps, domainWeights \in DomainWeightMaps :
          call' = [op |-> "calculateReadinessScore",
                   domainScores |-> domainScores, domainWeights |-> domainWeights,
                   result |-> calculateReadinessScore(domainScores, domainWeights)]
    /\ UNCHANGED <<viewVars, now, schedules, log, streakVars, appVars>>

DomainScoreCall ==
    /\ call.op = "none"
    /\ \E n \in 0..Len(ObjectiveIds) :
          \E qs \in [1..n -> QuizScoreLists] :
             LET progress == ProgressOf(qs)
             IN  call' = [op |-> "calculateDomainScore", progress |-> progress,
                          result |-> calculateDomainScore(progress)]
    /\ UNCHANGED <<viewVars, now, schedules, log, streakVars, appVars>>

MasteryScoreValues == {50, 60, 70, 79, 80, 81, 85, 90}

MasteryCall ==
    /\ call.op = "none"
    /\ \E k \in 0..(MaxQuizScores + 1) :
          \E scores \in [1..k -> MasteryScoreValues] :
             call' = [op |-> "calculateMastery", scores |-> scores,
                      result |-> calculateMastery(
                                     [i \in 1..k |-> Whole(scores[i])])]
    /\ UNCHANGED <<viewVars, now, schedules, log, streakVars, appVars>>

NextScore == ReadinessCall \/ DomainScoreCall \/ MasteryCall

SpecScore == Init /\ [][NextScore]_vars


\* --------------------------------------------------------------- storage
\* A JSON value is null, or a record [t, v]: a boolean, a non-negative whole
\* number, a string (its characters), an array (its elements) or an object
\* (its members [key, value] in insertion order).  A text is a sequence of
\* characters.  Strings hold letters, the quote and the backslash; these
\* are the only escapes the serializer writes and the parser reads here.

DigitChars == <<"0", "1", "2", "3", "4", "5", "6", "7", "8", "9">>
IsDigit(c) == \E i \in 1..10 : DigitChars[i] = c
DigitValue(c) == (CHOOSE i \in 1..10 : DigitChars[i] = c) - 1

RECURSIVE NumberText(_)
NumberText(n) ==
    IF n < 10 THEN <<DigitChars[n + 1]>>
    ELSE NumberText(n \div 10) \o <<DigitChars[(n % 10) + 1]>>

RECURSIVE EscapeChars(_)
EscapeChars(chars) ==
    IF chars = <<>> THEN <<>>
    ELSE (IF chars[1] \in {"\"", "\\"} THEN <<"\\", chars[1]>>
          ELSE <<chars[1]>>) \o EscapeChars(Tail(chars))

StringText(chars) == <<"\"">> \o EscapeChars(chars) \o <<"\"">>

RECURSIVE JSONstringify(_), JoinElements(_), JoinMembers(_)

JoinElements(elements) ==
    IF elements = <<>> THEN <<>>
    ELSE JSONstringify(elements[1]) \o
         (IF Len(elements) > 1 THEN <<",">> ELSE <<>>) \o
         JoinElements(Tail(elements))

JoinMembers(members) ==
    IF members = <<>> THEN <<>>
    ELSE StringText(members[1].key) \o <<":">> \o
         JSONstringify(members[1].value) \o
         (IF Len(members) > 1 THEN <<",">> ELSE <<>>) \o
         JoinMembers(Tail(members))

\* JSON.stringify(data)
JSONstringify(data) ==
    IF data = null THEN <<"n", "u", "l", "l">>
    ELSE CASE data.t = "bool" -> IF data.v THEN <<"t", "r", "u", "e">>
                                 ELSE <<"f", "a", "l", "s", "e">>
           [] data.t = "num"  -> NumberText(data.v)
           [] data.t = "str"  -> StringText(data.v)
           [] data.t = "arr"  -> <<"[">> \o JoinElements(data.v) \o <<"]">>
           [] data.t = "obj"  -> <<"{">> \o JoinMembers(data.v) \o <<"}">>

\* a SyntaxError
ParseFail == [ok |-> FALSE]

ParseOk(value, next) == [ok |-> TRUE, value |-> value, next |-> next]

RECURSIVE SkipWs(_, _)
SkipWs(text, pos) ==
    IF pos <= Len(text) /\ text[pos] = " " THEN SkipWs(text, pos + 1) ELSE pos

At(text, pos, c) == pos <= Len(text) /\ text[pos] = c

Matches(text, pos, word) ==
    /\ pos + Len(word) - 1 <= Len(text)
    /\ SubSeq(text, pos, pos + Len(word) - 1) = word

RECURSIVE ParseDigits(_, _, _)
ParseDigits(text, pos, acc) ==
    IF pos <= Len(text) /\ IsDigit(text[pos])
    THEN ParseDigits(text, pos + 1, acc * 10 + DigitValue(text[pos]))
    ELSE ParseOk([t |-> "num", v |-> acc], pos)

\* the characters of a string, from after its opening quote
RECURSIVE ParseChars(_, _, _)
ParseChars(text, pos, acc) ==
    IF pos > Len(text) THEN ParseFail
    ELSE IF text[pos] = "\"" THEN ParseOk(acc, pos + 1)
    ELSE IF text[pos] = "\\"
         THEN IF pos + 1 <= Len(text) /\ text[pos + 1] \in {"\"", "\\"}
              THEN ParseChars(text, pos + 2, Append(acc, text[pos + 1]))
              ELSE ParseFail
    ELSE ParseChars(text, pos + 1, Append(acc, text[pos]))

\* a repeated key keeps its place and takes the later value
PutMember(members, key, value) ==
    IF \E i \in 1..Len(members) : members[i].key = key
    THEN [i \in 1..Len(members) |->
             IF members[i].key = key
             THEN [key |-> key, value |-> value] ELSE members[i]]
    ELSE Append(members, [key |-> key, value |-> value])

RECURSIVE ParseValue(_, _), ParseElements(_, _, _), ParseMembers(_, _, _)

ParseElements(text, pos, acc) ==
    LET r == ParseValue(text, pos)
    IN  IF ~r.ok THEN ParseFail
        ELSE LET p == SkipWs(text, r.next)
             IN  IF At(text, p, ",")
                 THEN ParseElements(text, p + 1, Append(acc, r.value))
                 ELSE IF At(text, p, "]")
                 THEN ParseOk([t |-> "arr", v |-> Append(acc, r.value)], p + 1)
                 ELSE ParseFail

ParseMembers(text, pos, acc) ==
    LET p == SkipWs(text, pos)
    IN  IF ~At(text, p, "\"") THEN ParseFail
        ELSE LET k == ParseChars(text, p + 1, <<>>)
             IN  IF ~k.ok THEN ParseFail
                 ELSE LET c == SkipWs(text, k.next)
                      IN  IF ~At(text, c, ":") THEN ParseFail
                          ELSE LET r == ParseValue(text, c + 1)
                               IN  IF ~r.ok THEN ParseFail
                                   ELSE LET e  == SkipWs(text, r.next)
                                            ms == PutMember(acc, k.value, r.value)
                                        IN  IF At(text, e, ",")
                                            THEN ParseMembers(text, e + 1, ms)
                                            ELSE IF At(text, e, "}")
                                            THEN ParseOk([t |-> "obj", v |-> ms],
                                                         e + 1)
                                            ELSE ParseFail

ParseValue(text, pos) ==
    LET p == SkipWs(text, pos)
    IN  IF p > Len(text) THEN ParseFail
        ELSE IF Matches(text, p, <<"n", "u", "l", "l">>) THEN ParseOk(null, p + 4)
        ELSE IF Matches(text, p, <<"t", "r", "u", "e">>)
             THEN ParseOk([t |-> "bool", v |-> TRUE], p + 4)
        ELSE IF Matches(text, p, <<"f", "a", "l", "s", "e">>)
             THEN ParseOk([t |-> "bool", v |-> FALSE], p + 5)
        ELSE IF text[p] = "0" THEN ParseOk([t |-> "num", v |-> 0], p + 1)
        ELSE IF IsDigit(text[p]) THEN ParseDigits(text, p, 0)
        ELSE IF text[p] = "\""
             THEN LET r == ParseChars(text, p + 1, <<>>)
                  IN  IF r.ok THEN ParseOk([t |-> "str", v |-> r.value], r.next)
                      ELSE ParseFail
        ELSE IF text[p] = "["
             THEN LET q == SkipWs(text, p + 1)
                  IN  IF At(text, q, "]")
                      THEN ParseOk([t |-> "arr", v |-> <<>>], q + 1)
                      ELSE ParseElements(text, p + 1, <<>>)
        ELSE IF text[p] = "{"
             THEN LET q == SkipWs(text, p + 1)
                  IN  IF At(text, q, "}")
                      THEN ParseOk([t |-> "obj", v |-> <<>>], q + 1)
                      ELSE ParseMembers(text, p + 1, <<>>)
        ELSE ParseFail

\* the whole text is one value, white space around it apart
ParseText(text) ==
    LET r == ParseValue(text, 1)
    IN  IF r.ok /\ SkipWs(text, r.next) = Len(text) + 1
        THEN [ok |-> TRUE, value |-> r.value]
        ELSE ParseFail

\* F(x), x being computed once, before F is applied to it
Eval(F(_), x) == CHOOSE y \in {F(v) : v \in {x}} : TRUE

\* JSON.parse(item): a value, or a SyntaxError
JSONparse(text) == Eval(ParseText, text)


\* localStorage.getItem(key): the stored String, or null
getItem(st, key) == IF key \in DOMAIN st THEN [text |-> st[key]] ELSE null

\* localStorage.setItem(key, value)
setItem(st, key, text) ==
    [k \in DOMAIN st \cup {key} |-> IF k = key THEN text ELSE st[k]]

\* localStorage.removeItem(key)
removeItem(st, key) == [k \in DOMAIN st \ {key} |-> st[k]]

\* `item ? ... : ...`: null and the empty string are falsy
Truthy(item) == item # null /\ item.text # <<>>

\* storage.save(key, data): the store afterwards
save(st, key, data) == setItem(st, key, JSONstringify(data))

\* a falsy parsed value: null, false, 0 or the empty string
Falsy(value) ==
    \/ value = null
    \/ value # null /\ value.t = "bool" /\ ~value.v
    \/ value # null /\ value.t = "num" /\ value.v = 0
    \/ value # null /\ value.t = "str" /\ value.v = <<>>

\* mutant: JSON.parse(item) || defaultValue
load_FalsyDefault(st, key, defaultValue) ==
    LET item == getItem(st, key)
    IN  IF Truthy(item)
        THEN LET r == JSONparse(item.text)
             IN  IF r.ok
                 THEN [threw |-> FALSE,
                       value |-> IF Falsy(r.value) THEN defaultValue
                                 ELSE r.value]
                 ELSE [threw |-> FALSE, value |-> defaultValue]
        ELSE [threw |-> FALSE, value |-> defaultValue]

\* mutant: no try / catch around JSON.parse
load_NoCatch(st, key, defaultValue) ==
    LET item == getItem(st, key)
    IN  IF Truthy(item)
        THEN LET r == JSONparse(item.text)
             IN  IF r.ok THEN [threw |-> FALSE, value |-> r.value]
                 ELSE [threw |-> TRUE, value |-> null]
        ELSE [threw |-> FALSE, value |-> defaultValue]

\* storage.load(key, defaultValue): what it returns and whether it throws
load(st, key, defaultValue) ==
    LET item == getItem(st, key)
    IN  IF Truthy(item)
        THEN LET r == JSONparse(item.text)
             IN  IF r.ok THEN [threw |-> FALSE, value |-> r.value]
                 ELSE [threw |-> FALSE, value |-> defaultValue]
        ELSE [threw |-> FALSE, value |-> defaultValue]

\* storage.remove(key): the store afterwards
remove(st, key) == removeItem(st, key)

StorageKeys == {"aplus_test", "aplus_streak"}

JBool(b) == [t |-> "bool", v |-> b]
JNum(n) == [t |-> "num", v |-> n]
JStr(chars) == [t |-> "str", v |-> chars]
JArr(elements) == [t |-> "arr", v |-> elements]
JObj(members) == [t |-> "obj", v |-> members]
Member(key, value) == [key |-> key, value |-> value]

Foo == <<"f", "o", "o">>
Bar == <<"b", "a", "r">>

JsonAtoms ==
    {null, JBool(TRUE), JBool(FALSE), JNum(0), JNum(7), JNum(10),
     JStr(<<>>), JStr(Bar), JStr(<<"a", "\"", "\\">>)}

JsonElements == {null, JNum(10), JStr(Bar), JBool(TRUE)}

\* the values handed to storage.save and as defaults to storage.load
JsonValues ==
    JsonAtoms
    \cup {JArr(es) : es \in UNION {[1..n -> JsonElements] : n \in 0..2}}
    \cup {JObj(<<>>)}
    \cup {JObj(<<Member(k, x)>>) : k \in {Foo, <<"n">>}, x \in {JStr(Bar), JNum(7)}}
    \cup {JObj(<<Member(Foo, x), Member(<<"n">>, y)>>) :
             x \in {JStr(Bar), JNum(7)}, y \in {null, JNum(0)}}
    \cup {JArr(<<JArr(<<>>)>>), JArr(<<JObj(<<>>)>>),
          JArr(<<JObj(<<Member(Foo, JStr(Bar))>>)>>),
          JObj(<<Member(Foo, JArr(<<JNum(10)>>))>>),
          JObj(<<Member(Foo, JObj(<<Member(<<"n">>, JNum(7))>>))>>)}

\* texts found in the store that storage.save did not write
ForeignTexts ==
    {<<>>, <<"{">>, <<"n", "u", "l">>,
     <<"u", "n", "d", "e", "f", "i", "n", "e", "d">>,
     <<"[", "1", "0", ",", "]">>, <<"[", " ", "1", "0", " ", "]">>}

LoadDefaults == {null, JArr(<<>>)}

InitStorage ==
    /\ now = 0
    /\ schedules = <<>>
    /\ log = <<>>
    /\ call = [op |-> "none"]
    /\ StreakInit
    /\ onboarding = [phase |-> "welcome", questions |-> <<>>, answers |-> <<>>]
    /\ storedProgress = <<>>
    /\ \E K \in SUBSET StorageKeys : store \in [K -> ForeignTexts]
    /\ tabs = <<>>
    /\ ViewInit

StorageSave(key, data) ==
    /\ store' = save(store, key, data)
    /\ call' = [op |-> "save", key |-> key, data |-> data]
    /\ UNCHANGED <<viewVars, now, schedules, log, streakVars,
                   onboarding, storedProgress, tabs>>

StorageLoad(key, defaultValue) ==
    /\ LET r == load(store, key, defaultValue)
       IN  call' = [op |-> "load", key |-> key, defaultValue |-> defaultValue,
                    result |-> r.value, threw |-> r.threw]
    /\ UNCHANGED <<viewVars, now, schedules, log, streakVars, appVars>>

StorageRemove(key) ==
    /\ store' = remove(store, key)
    /\ call' = [op |-> "remove", key |-> key]
    /\ UNCHANGED <<viewVars, now, schedules, log, streakVars,
                   onboarding, storedProgress, tabs>>

NextStorage ==
    \/ \E key \in StorageKeys, data \in JsonValues : StorageSave(key, data)
    \/ \E key \in StorageKeys, d \in LoadDefaults : StorageLoad(key, d)
    \/ \E key \in StorageKeys : StorageRemove(key)

SpecStorage == InitStorage /\ [][NextStorage]_vars


\* ------------------------------------------------- calculateQuestionScore
\* submitExam turns each exam question and its answer into a QuestionResult
\* and sums calculateQuestionScore over the results.

\* mutant: the quotient is taken without the guard; 0 / 0 is NaN, kept as
\* the fraction 0 / 0
PartialScore_Unguarded(correctCount, total) ==
    [num |-> correctCount, den |-> total]

\* partialScore: total > 0 ? correctCount / total : 0
PartialScore(correctCount, total) ==
    IF total > 0 THEN [num |-> correctCount, den |-> total] ELSE Whole(0)

\* userPairs.filter(up => q.pairs.some(cp => cp.left === up.left &&
\* cp.right === up.right)).length
CorrectCount(userPairs, pairs) ==
    Cardinality({i \in 1..Len(userPairs) :
                    \E j \in 1..Len(pairs) :
                        /\ pairs[j].left = userPairs[i].left
                        /\ pairs[j].right = userPairs[i].right})

\* mutant: a matching question is correct as soon as one pair is
QuestionResultOf_AnyCorrect(q, a) ==
    IF q.questionType = "matching"
    THEN LET userPairs    == IF a.matchingPairs = null
                             THEN <<>> ELSE a.matchingPairs.pairs
             correctCount == CorrectCount(userPairs, q.pairs)
             total        == Len(q.pairs)
         IN  [questionId    |-> q.id,
              questionType  |-> "matching",
              selectedPairs |-> userPairs,
              correctPairs  |-> correctCount,
              totalPairs    |-> total,
              correct       |-> (correctCount >= 1),
              partialScore  |-> PartialScore(correctCount, total)]
    ELSE [questionId     |-> q.id,
          questionType   |-> "multiple-choice",
          selectedAnswer |-> IF a.answer = "null" THEN "" ELSE a.answer,
          correct        |-> (a.answer = q.correct)]

\* the body of examQuestions.map((q, i) => ...), a being answers[i]
\* (an answer not given, null in the source, is the string "null")
QuestionResultOf(q, a) ==
    IF q.questionType = "matching"
    THEN LET userPairs    == IF a.matchingPairs = null
                             THEN <<>> ELSE a.matchingPairs.pairs
             correctCount == CorrectCount(userPairs, q.pairs)
             total        == Len(q.pairs)
         IN  [questionId    |-> q.id,
              questionType  |-> "matching",
              selectedPairs |-> userPairs,
              correctPairs  |-> correctCount,
              totalPairs    |-> total,
              correct       |-> (correctCount = total),
              partialScore  |-> PartialScore(correctCount, total)]
    ELSE [questionId     |-> q.id,
          questionType   |-> "multiple-choice",
          selectedAnswer |-> IF a.answer = "null" THEN "" ELSE a.answer,
          correct        |-> (a.answer = q.correct)]

\* mutant: every answered multiple-choice question scores 1
calculateQuestionScore_Answered(result) ==
    IF result.questionType = "matching" THEN result.partialScore
    ELSE IF result.selectedAnswer # "" THEN Whole(1) ELSE Whole(0)

\* 1 or 0 for a multiple-choice result, partialScore for a matching one
calculateQuestionScore(result) ==
    IF result.questionType = "matching" THEN result.partialScore
    ELSE IF result.correct THEN Whole(1) ELSE Whole(0)

OptionKeys == {"A", "B"}

\* the pair lists of a matching question with n pairs: left i goes with
\* right i
KeyPairs(n) == [i \in 1..n |-> [left |-> i, right |-> i]]

\* one question, its answer, the result submitExam builds and its score
QuestionScoreCall ==
    /\ call.op = "none"
    /\ \/ \E key \in OptionKeys, answer \in OptionKeys \cup {"null"} :
            LET q == [id |-> "q-1", questionType |-> "multiple-choice",
                      correct |-> key]
                a == [answer |-> answer, matchingPairs |-> null]
                r == QuestionResultOf(q, a)
            IN  call' = [op |-> "calculateQuestionScore", question |-> q,
                         answer |-> a, arg |-> r,
                         result |-> calculateQuestionScore(r)]
       \/ \E n \in 0..MaxPairs :
            \E mp \in {null} \cup
                      {[pairs |-> up] :
                          up \in UNION {[1..k -> [left : 1..n, right : 1..n]] :
                                           k \in 0..n}} :
               LET q == [id |-> "q-2", questionType |-> "matching",
                         pairs |-> KeyPairs(n)]
                   a == [answer |-> "null", matchingPairs |-> mp]
                   r == QuestionResultOf(q, a)
               IN  call' = [op |-> "calculateQuestionScore", question |-> q,
                            answer |-> a, arg |-> r,
                            result |-> calculateQuestionScore(r)]
    /\ UNCHANGED <<viewVars, now, schedules, log, streakVars, appVars>>

NextQuestionScore == QuestionScoreCall

SpecQuestionScore == Init /\ [][NextQuestionScore]_vars


\* ------------------------------------------------------------ Onboarding
\* The diagnostic quiz: startDiagnostic picks the questions, handleNext
\* records one answer per question, finishOnboarding seeds the stored
\* ObjectiveProgress from the answers.

DiagnosticObjectives == {"1.1", "1.2"}

\* the Question records selectDiagnosticQuestions may return
DiagnosticQuestions ==
    UNION { { [i \in 1..n |-> [id |-> i, exam |-> "Core 1",
                               objectiveId |-> objs[i]]] :
                objs \in [1..n -> DiagnosticObjectives] } :
            n \in 1..MaxQuestions }

startDiagnostic(qs) ==
    /\ onboarding.phase = "welcome"
    /\ onboarding' = [phase |-> "quiz", questions |-> qs, answers |-> <<>>]
    /\ UNCHANGED <<viewVars, now, schedules, log, call, streakVars,
                   storedProgress, store, tabs>>

\* currentIdx is the number of answers given so far
handleNext(isCorrect) ==
    /\ onboarding.phase = "quiz"
    /\ LET currentIdx == Len(onboarding.answers) + 1
           q          == onboarding.questions[currentIdx]
           newAnswers == Append(onboarding.answers,
                                [questionId |-> q.id, correct |-> isCorrect])
       IN  onboarding' =
               [onboarding EXCEPT
                   !.answers = newAnswers,
                   !.phase = IF currentIdx < Len(onboarding.questions)
                             THEN "quiz" ELSE "results"]
    /\ UNCHANGED <<viewVars, now, schedules, log, call, streakVars,
                   storedProgress, store, tabs>>

\* the position in progressMap of the record with this key, 0 if none
KeyIndex(progressMap, exam, objectiveId) ==
    LET found == {i \in 1..Len(progressMap) :
                     /\ progressMap[i].exam = exam
                     /\ progressMap[i].objectiveId = objectiveId}
    IN  IF found = {} THEN 0 ELSE CHOOSE i \in found : TRUE

\* the score an answer adds to quizScores: 50 for a correct one, the
\* average so far less 15 (not below 0) for a wrong one, nothing for a
\* wrong one when the average so far is 0
SeedScores(quizScores, correct) ==
    IF correct THEN Append(quizScores, Whole(50))
    ELSE LET total == ReduceMeans(quizScores)
             avg   == IF Len(quizScores) > 0
                      THEN [num |-> total.num,
                            den |-> total.den * Len(quizScores)]
                      ELSE Whole(0)
             less  == [num |-> avg.num - 15 * avg.den, den |-> avg.den]
         IN  IF avg.num > 0
             THEN Append(quizScores, IF less.num > 0 THEN less ELSE Whole(0))
             ELSE quizScores

\* mutant: the seeded mastery is computed from the seeded scores
SeedMastery_Derived(quizScores) == calculateMastery(quizScores)

\* progressMap[key].mastery = 'in_progress'
SeedMastery(quizScores) == "in_progress"

\* the body of `for (const a of answers)`; progressMap keeps its records in
\* the order their keys were added, as Object.values returns them
RECURSIVE SeedLoop(_, _, _, _)
SeedLoop(answers, questions, progressMap, clock) ==
    IF answers = <<>> THEN progressMap
    ELSE LET a  == answers[1]
             qi == {i \in 1..Len(questions) : questions[i].id = a.questionId}
         IN  IF qi = {}
             THEN SeedLoop(Tail(answers), questions, progressMap, clock)
             ELSE LET q      == questions[CHOOSE i \in qi : TRUE]
                      at     == KeyIndex(progressMap, q.exam, q.objectiveId)
                      map    == IF at = 0
                                THEN Append(progressMap,
                                       [objectiveId |-> q.objectiveId,
                                        exam |-> q.exam,
                                        mastery |-> "not_started",
                                        quizScores |-> <<>>,
                                        flashcardsReviewed |-> 0,
                                        lastStudied |-> toISOString(clock)])
                                ELSE progressMap
                      k      == IF at = 0 THEN Len(map) ELSE at
                      scores == SeedScores(map[k].quizScores, a.correct)
                  IN  SeedLoop(Tail(answers), questions,
                               [map EXCEPT ![k].quizScores = scores,
                                           ![k].mastery = SeedMastery(scores)],
                               clock)

\* storage.save(PROGRESS, Object.values(progressMap)); completeOnboarding
finishOnboarding ==
    /\ onboarding.phase = "results"
    /\ storedProgress' = SeedLoop(onboarding.answers, onboarding.questions,
                                  <<>>, now)
    /\ onboarding' = [onboarding EXCEPT !.phase = "completed"]
    /\ UNCHANGED <<viewVars, now, schedules, log, call, streakVars, store, tabs>>

NextOnboarding ==
    \/ \E qs \in DiagnosticQuestions : startDiagnostic(qs)
    \/ \E isCorrect \in BOOLEAN : handleNext(isCorrect)
    \/ finishOnboarding

SpecOnboarding == Init /\ [][NextOnboarding]_vars


\* ---------------------------------------------- handleRating in two tabs
\* Each tab runs handleRating once.  The handler reads and writes
\* localStorage four times; another tab's reads and writes may fall between
\* any two of them.  `schedules` is the list stored under
\* STORAGE_KEYS.FLASHCARD_SCHEDULE and `streak` the record under
\* STORAGE_KEYS.STREAK.

Tabs == {"tab1", "tab2"}

\* mutant: the update is always pushed
RatedSchedules_Push(currentSchedules, cardId, quality, clock) ==
    Append(currentSchedules,
           calculateNextReview(createNewCardSchedule(cardId, clock),
                               quality, clock))

\* the list handleRating saves: the loaded list with the card's schedule
\* replaced by its update, or the update of a new schedule pushed
RatedSchedules(currentSchedules, cardId, quality, clock) ==
    LET found         == {i \in 1..Len(currentSchedules) :
                             currentSchedules[i].cardId = cardId}
        existingIndex == IF found = {} THEN 0
                         ELSE CHOOSE i \in found : \A j \in found : i <= j
        existing      == IF existingIndex > 0 THEN currentSchedules[existingIndex]
                         ELSE createNewCardSchedule(cardId, clock)
        updated       == calculateNextReview(existing, quality, clock)
    IN  IF existingIndex > 0
        THEN [currentSchedules EXCEPT ![existingIndex] = updated]
        ELSE Append(currentSchedules, updated)

\* mutant: the list is read again when it is written
SavedSchedules_Reread(stored, local, clock) ==
    RatedSchedules(stored, local.cardId, local.quality, clock)

\* storage.save(FLASHCARD_SCHEDULE, currentSchedules): the list written is
\* the one this tab loaded and changed
SavedSchedules(stored, local, clock) == local.currentSchedules

SetTab(tab, local) ==
    [t \in DOMAIN tabs \cup {tab} |-> IF t = tab THEN local ELSE tabs[t]]

Event(tab, op, key) == [tab |-> tab, op |-> op, key |-> key]

\* storage.load(FLASHCARD_SCHEDULE, []) ?? [], and the update of the list
LoadSchedules(tab, cardId, quality) ==
    /\ tab \notin DOMAIN tabs
    /\ tabs' = SetTab(tab, [pc               |-> "saveSchedules",
                            cardId           |-> cardId,
                            quality          |-> quality,
                            loadedSchedules  |-> schedules,
                            currentSchedules |->
                                RatedSchedules(schedules, cardId, quality, now),
                            loadedStreak     |-> null,
                            newStreak        |-> null])
    /\ log' = Append(log, Event(tab, "load", "schedule"))
    /\ UNCHANGED <<viewVars, now, schedules, call, streakVars,
                   onboarding, storedProgress, store>>

\* storage.save(FLASHCARD_SCHEDULE, currentSchedules)
SaveSchedules(tab) ==
    /\ tab \in DOMAIN tabs
    /\ tabs[tab].pc = "saveSchedules"
    /\ schedules' = SavedSchedules(schedules, tabs[tab], now)
    /\ tabs' = SetTab(tab, [tabs[tab] EXCEPT !.pc = "loadStreak"])
    /\ log' = Append(log, Event(tab, "save", "schedule"))
    /\ UNCHANGED <<viewVars, now, call, streakVars, onboarding, storedProgress, store>>

\* storage.load(STREAK), and updateStreak of it
LoadStreak(tab) ==
    /\ tab \in DOMAIN tabs
    /\ tabs[tab].pc = "loadStreak"
    /\ tabs' = SetTab(tab, [tabs[tab] EXCEPT
                               !.pc = "saveStreak",
                               !.loadedStreak = streak,
                               !.newStreak = updateStreak(streak, now)])
    /\ log' = Append(log, Event(tab, "load", "streak"))
    /\ UNCHANGED <<viewVars, now, schedules, call, streakVars,
                   onboarding, storedProgress, store>>

\* storage.save(STREAK, updateStreak(currentStreak))
SaveStreak(tab) ==
    /\ tab \in DOMAIN tabs
    /\ tabs[tab].pc = "saveStreak"
    /\ streak' = tabs[tab].newStreak
    /\ tabs' = SetTab(tab, [tabs[tab] EXCEPT !.pc = "done"])
    /\ log' = Append(log, Event(tab, "save", "streak"))
    /\ UNCHANGED <<viewVars, now, schedules, call, updatedDays, reupdated, skewed,
                   onboarding, storedProgress, store>>

\* midnight passes, once
DayPasses ==
    /\ now < TicksPerDay
    /\ now' = now + TicksPerDay
    /\ UNCHANGED <<viewVars, schedules, log, call, streakVars, appVars>>

NextTabs ==
    \/ \E tab \in Tabs, c \in CardIds, q \in Quality : LoadSchedules(tab, c, q)
    \/ \E tab \in Tabs : SaveSchedules(tab)
    \/ \E tab \in Tabs : LoadStreak(tab)
    \/ \E tab \in Tabs : SaveStreak(tab)
    \/ DayPasses

SpecTabs == Init /\ [][NextTabs]_vars


\* ------------------------------------------------ the Flashcards session
\* `flashcards` holds the component's useState values and what its last
\* render computed (filteredCards).  Every handler that sets state is followed
\* by a render, which loads the schedules again and filters the cards with
\* the clock of that moment.  The exam, domain and objective filters stay at
\* "All".  atStart is the filtered list when the session began (the index
\* was last set to 0), presented the cards shown since then, rated the number
\* of ratings since the component was mounted.

\* the label of the button that rates with a quality
LabelOf(quality) ==
    CASE quality = Again -> "Again"
      [] quality = Hard  -> "Hard"
      [] quality = Good  -> "Good"
      [] quality = Easy  -> "Easy"

\* filteredCards: with Due Only, the cards without a schedule or due
FilteredCards(dueOnly, stored, clock) ==
    SelectSeq(allFlashcards,
              LAMBDA c :
                  \/ ~dueOnly
                  \/ LET found == {i \in 1..Len(stored) : stored[i].cardId = c}
                     IN  \/ found = {}
                         \/ isDueForReview(
                                stored[CHOOSE i \in found :
                                           \A j \in found : i <= j], clock))

\* currentCard is not null
HasCurrentCard(view) == view.currentIndex < Len(view.filteredCards)

\* filteredCards[currentIndex]
CurrentCard(view) == view.filteredCards[view.currentIndex + 1]

\* a render: the list is filtered again and the current card is shown
Render(view, stored, clock) ==
    LET v == [view EXCEPT !.filteredCards =
                              FilteredCards(view.dueOnly, stored, clock)]
    IN  IF ~v.sessionDone /\ HasCurrentCard(v)
        THEN [v EXCEPT !.presented = @ \cup {CurrentCard(v)}]
        ELSE v

\* a render in which a session begins
RenderStart(view, stored, clock) ==
    LET fc == FilteredCards(view.dueOnly, stored, clock)
    IN  Render([view EXCEPT !.atStart = {fc[i] : i \in 1..Len(fc)},
                            !.presented = {}], stored, clock)

\* the state handleRating sets: the session result counts the rating, the
\* index advances or the session is done
AfterRating(view, label) ==
    LET counted == [view EXCEPT
                       !.sessionResult.totalReviewed = @ + 1,
                       !.sessionResult.ratings[label] = @ + 1,
                       !.rated = @ + 1]
    IN  IF view.currentIndex < Len(view.filteredCards) - 1
        THEN [counted EXCEPT !.currentIndex = @ + 1, !.isFlipped = FALSE]
        ELSE [counted EXCEPT !.sessionDone = TRUE]


\* the card is clicked or Space is pressed: it is turned over
FlipCard ==
    /\ ~flashcards.sessionDone
    /\ HasCurrentCard(flashcards)
    /\ flashcards' = Render([flashcards EXCEPT !.isFlipped = ~@],
                            schedules, now)
    /\ UNCHANGED <<now, schedules, log, call, streakVars, appVars,
                   practiceExam, quizEngine, history>>

\* handleRating(quality, label), from a rating button or the keys 1-4, which
\* work on a turned card only
handleRating(quality) ==
    /\ flashcards.isFlipped
    /\ ~flashcards.sessionDone
    /\ HasCurrentCard(flashcards)
    /\ flashcards.rated < MaxRatings
    /\ LET currentCard == CurrentCard(flashcards)
           saved       == RatedSchedules(schedules, currentCard, quality, now)
           newStreak   == updateStreak(streak, now)
           today       == SplitDate(toISOString(now))
       IN  /\ schedules' = saved
           /\ streak' = newStreak
           /\ updatedDays' = IF newStreak # streak
                             THEN updatedDays \cup {today} ELSE updatedDays
           /\ reupdated' = (reupdated \/
                               (newStreak # streak /\ today \in updatedDays))
           /\ call' = [op |-> "handleRating", cardId |-> currentCard,
                       quality |-> quality, at |-> now,
                       before |-> schedules, after |-> saved]
           /\ flashcards' = Render(AfterRating(flashcards, LabelOf(quality)),
                                   saved, now)
    /\ UNCHANGED <<now, log, skewed, appVars, practiceExam, quizEngine, history>>

\* the Due Only button
ToggleDueOnly ==
    /\ ~flashcards.sessionDone
    /\ flashcards' = RenderStart([flashcards EXCEPT !.dueOnly = ~@,
                                                    !.currentIndex = 0,
                                                    !.isFlipped = FALSE],
                                 schedules, now)
    /\ UNCHANGED <<now, schedules, log, call, streakVars, appVars,
                   practiceExam, quizEngine, history>>

\* resetSession, the Study Again button of the summary
resetSession ==
    /\ flashcards.sessionDone
    /\ flashcards' =
           RenderStart([flashcards EXCEPT
                           !.currentIndex = 0,
                           !.isFlipped = FALSE,
                           !.sessionDone = FALSE,
                           !.sessionResult =
                               [totalReviewed |-> 0,
                                ratings |-> [l \in RatingLabels |-> 0]]],
                       schedules, now)
    /\ UNCHANGED <<now, schedules, log, call, streakVars, appVars,
                   practiceExam, quizEngine, history>>

NextFlashcards ==
    \/ Tick
    \/ FlipCard
    \/ \E quality \in Quality : handleRating(quality)
    \/ ToggleDueOnly
    \/ resetSession

SpecFlashcards == Init /\ [][NextFlashcards]_vars


\* ------------------------------------------------------ the practice exam
\* `practiceExam` holds the component's useState values and `timer`, the
\* values the interval callback closes over: the effect that starts the
\* interval runs when phase becomes 'exam' and not again, so the submitExam
\* the callback calls is the one of that render.  The time limit is
\* ExamSeconds, one timer tick is one second.

\* the questions of the data file for the chosen exam
ExamQuestionPool ==
    {[id |-> "q-1", questionType |-> "multiple-choice", correct |-> "A",
      domain |-> "1.0"],
     [id |-> "q-2", questionType |-> "matching", pairs |-> KeyPairs(2),
      domain |-> "2.0"]}

\* shuffleArray(examQs).slice(0, count): distinct questions in some order
ExamQuestionLists ==
    {qs \in UNION {[1..n -> ExamQuestionPool] : n \in 1..2} :
        \A i, j \in 1..Len(qs) : i # j => qs[i] # qs[j]}

\* the pair lists MatchingQuestionView hands to onAnswer for n pairs: every
\* left and every right item once
FullPairLists(n) ==
    {up \in [1..n -> [left : 1..n, right : 1..n]] :
        \A i, j \in 1..n : i # j => /\ up[i].left # up[j].left
                                    /\ up[i].right # up[j].right}

\* the ExamResult submitExam builds from the values it closes over
ExamResultOf(examQuestions, answers, timeRemaining, clock) ==
    LET N               == 1..Len(examQuestions)
        questionResults == [i \in N |->
                               QuestionResultOf(examQuestions[i], answers[i])]
        totalScoreSum   == ReduceMeans([i \in N |->
                               calculateQuestionScore(questionResults[i])])
        correct         == Cardinality({i \in N : questionResults[i].correct})
        total           == Len(questionResults)
        domains         == {examQuestions[i].domain : i \in N}
        scaledScore     == IF total > 0
                           THEN RoundDiv(100 * totalScoreSum.den * total
                                             + 800 * totalScoreSum.num,
                                         totalScoreSum.den * total)
                           ELSE 100
    IN  [id              |-> clock,
         date            |-> toISOString(clock),
         exam            |-> "Core 1",
         totalQuestions  |-> total,
         correctAnswers  |-> correct,
         score           |-> scaledScore,
         questionResults |-> questionResults,
         timeSpent       |-> ExamSeconds - timeRemaining,
         passed          |-> (scaledScore >= PassingScore),
         domainScores    |->
             [d \in domains |->
                 [correct |-> Cardinality({i \in N :
                                  /\ examQuestions[i].domain = d
                                  /\ questionResults[i].correct}),
                  total   |-> Cardinality({i \in N :
                                  examQuestions[i].domain = d})]]]

\* what the submitExam of the present render closes over
Closure(view) ==
    [examQuestions |-> view.examQuestions, answers |-> view.answers,
     timeRemaining |-> view.timeRemaining]

\* what the submitExam called by the timer closes over
TimerClosure(view) == view.timer

\* startExam, and the render and effect that follow: the interval is started
\* with the submitExam of this render
startExam(selected) ==
    /\ practiceExam.phase = "setup"
    /\ LET started == [phase         |-> "exam",
                       examQuestions |-> selected,
                       answers       |-> [i \in 1..Len(selected) |->
                                             [answer |-> "null",
                                              matchingPairs |-> null,
                                              flagged |-> FALSE]],
                       currentIdx    |-> 0,
                       timeRemaining |-> ExamSeconds,
                       examResult    |-> null]
       IN  practiceExam' = [phase         |-> started.phase,
                            examQuestions |-> started.examQuestions,
                            answers       |-> started.answers,
                            currentIdx    |-> started.currentIdx,
                            timeRemaining |-> started.timeRemaining,
                            examResult    |-> started.examResult,
                            timer         |-> Closure(started)]
    /\ UNCHANGED <<now, schedules, log, call, streakVars, appVars,
                   flashcards, quizEngine, history>>

\* selectAnswer(key) on the multiple-choice question shown
selectAnswer(key) ==
    /\ practiceExam.phase = "exam"
    /\ LET i == practiceExam.currentIdx + 1
       IN  /\ practiceExam.examQuestions[i].questionType = "multiple-choice"
           /\ practiceExam' = [practiceExam EXCEPT !.answers[i].answer = key]
    /\ UNCHANGED <<now, schedules, log, call, streakVars, appVars,
                   flashcards, quizEngine, history>>

\* setMatchingPairs(pairs), called by the matching view of the question shown
setMatchingPairs(pairs) ==
    /\ practiceExam.phase = "exam"
    /\ LET i == practiceExam.currentIdx + 1
       IN  /\ practiceExam.examQuestions[i].questionType = "matching"
           /\ Len(pairs) = Len(practiceExam.examQuestions[i].pairs)
           /\ practiceExam' = [practiceExam EXCEPT
                                  !.answers[i].matchingPairs =
                                      [pairs |-> pairs]]
    /\ UNCHANGED <<now, schedules, log, call, streakVars, appVars,
                   flashcards, quizEngine, history>>

\* setCurrentIdx(i), from Previous, Next and the question navigator
GoToQuestion(i) ==
    /\ practiceExam.phase = "exam"
    /\ i < Len(practiceExam.examQuestions)
    /\ i # practiceExam.currentIdx
    /\ practiceExam' = [practiceExam EXCEPT !.currentIdx = i]
    /\ UNCHANGED <<now, schedules, log, call, streakVars, appVars,
                   flashcards, quizEngine, history>>

\* what submitExam does with the values it closes over: the result is
\* appended to the stored history, the streak is updated, the results shown
Submitted(op, closure, timeLeft) ==
    LET result    == ExamResultOf(closure.examQuestions, closure.answers,
                                  closure.timeRemaining, now)
        newStreak == updateStreak(streak, now)
        today     == SplitDate(toISOString(now))
    IN  /\ history' = [history EXCEPT !.exam = Append(@, result)]
        /\ streak' = newStreak
        /\ updatedDays' = IF newStreak # streak
                          THEN updatedDays \cup {today} ELSE updatedDays
        /\ reupdated' = (reupdated \/
                            (newStreak # streak /\ today \in updatedDays))
        /\ practiceExam' = [practiceExam EXCEPT !.phase = "results",
                                                !.examResult = result,
                                                !.timeRemaining = timeLeft]
        /\ call' = [op |-> op, result |-> result, view |-> practiceExam,
                    manual |-> ExamResultOf(practiceExam.examQuestions,
                                            practiceExam.answers,
                                            practiceExam.timeRemaining, now)]

\* the Submit button of the confirmation dialog: submitExam of this render
submitExam ==
    /\ practiceExam.phase = "exam"
    /\ Submitted("submitExam", Closure(practiceExam),
                 practiceExam.timeRemaining)
    /\ UNCHANGED <<now, schedules, log, skewed, appVars,
                   flashcards, quizEngine>>

\* the interval callback, once a second: the time left goes down by one, and
\* at one second left the timer's submitExam is called and the time set to 0
TimerTick ==
    /\ practiceExam.phase = "exam"
    /\ IF practiceExam.timeRemaining <= 1
       THEN /\ Submitted("timer", TimerClosure(practiceExam), 0)
            /\ UNCHANGED <<now, schedules, log, skewed, appVars,
                           flashcards, quizEngine>>
       ELSE /\ practiceExam' = [practiceExam EXCEPT !.timeRemaining = @ - 1]
            /\ UNCHANGED <<now, schedules, log, call, streakVars, appVars,
                           flashcards, quizEngine, history>>

NextExam ==
    \/ \E selected \in ExamQuestionLists : startExam(selected)
    \/ \E key \in OptionKeys : selectAnswer(key)
    \/ \E pairs \in FullPairLists(2) : setMatchingPairs(pairs)
    \/ \E i \in 0..1 : GoToQuestion(i)
    \/ submitExam
    \/ TimerTick

SpecExam == Init /\ [][NextExam]_vars


\* ------------------------------------- the quiz and its matching question
\* `quizEngine` holds QuizEngine's useState values and, under `view`, those
\* of the MatchingQuestionView it renders (selectedLeft, 0 for null, and
\* pairs).  The left and right items of a question with n pairs are 1..n,
\* left i belonging with right i.  A matching question is never followed by
\* another, so the view is mounted anew for each.

MultipleChoice ==
    [id |-> "q-1", questionType |-> "multiple-choice", correct |-> "A"]

Matching(n) == [id |-> "q-2", questionType |-> "matching", pairs |-> KeyPairs(n)]

\* the question lists startQuiz may pick
QuizQuestionLists ==
    UNION {{<<Matching(n)>>, <<Matching(n), MultipleChoice>>,
            <<MultipleChoice, Matching(n)>>} : n \in 1..MaxMatchItems}

\* useState(null) and useState([]) of a view just mounted
MountedView == [selectedLeft |-> 0, pairs |-> <<>>]

\* the question shown
QuizQuestion == quizEngine.quizQuestions[quizEngine.currentIdx + 1]

\* the matching view is shown and takes clicks
ViewEnabled ==
    /\ quizEngine.phase = "quiz"
    /\ QuizQuestion.questionType = "matching"
    /\ ~quizEngine.showExplanation

\* mutant: the pair is added without removing the pairs it replaces
NewPairs_NoFilter(pairs, selectedLeft, right) ==
    Append(pairs, [left |-> selectedLeft, right |-> right])

\* handleRightClick's newPairs: the pairs of this right item and of the
\* selected left item are removed, the new pair is pushed
NewPairs(pairs, selectedLeft, right) ==
    Append(SelectSeq(SelectSeq(pairs, LAMBDA p : p.right # right),
                     LAMBDA p : p.left # selectedLeft),
           [left |-> selectedLeft, right |-> right])

\* startQuiz(): the questions are picked and the first one is shown
startQuiz(qs) ==
    /\ quizEngine.phase = "setup"
    /\ quizEngine' = [phase           |-> "quiz",
                      quizQuestions   |-> qs,
                      currentIdx      |-> 0,
                      selectedAnswer  |-> "null",
                      matchingPairs   |-> null,
                      showExplanation |-> FALSE,
                      results         |-> <<>>,
                      view            |-> MountedView]
    /\ call' = [op |-> "startQuiz"]
    /\ UNCHANGED <<now, schedules, log, streakVars, appVars,
                   flashcards, practiceExam, history>>

\* handleAnswer(answer) on a multiple-choice question
handleAnswer(answer) ==
    /\ quizEngine.phase = "quiz"
    /\ QuizQuestion.questionType = "multiple-choice"
    /\ ~quizEngine.showExplanation
    /\ quizEngine' = [quizEngine EXCEPT !.selectedAnswer = answer,
                                        !.showExplanation = TRUE]
    /\ call' = [op |-> "handleAnswer"]
    /\ UNCHANGED <<now, schedules, log, streakVars, appVars,
                   flashcards, practiceExam, history>>

\* handleLeftClick(left): a paired item is un-paired and selected, the
\* selected item is deselected, any other item is selected
handleLeftClick(left) ==
    /\ ViewEnabled
    /\ LET view        == quizEngine.view
           existing    == {i \in 1..Len(view.pairs) : view.pairs[i].left = left}
           existingIdx == IF existing = {} THEN 0
                          ELSE CHOOSE i \in existing : \A j \in existing : i <= j
       IN  quizEngine' =
               [quizEngine EXCEPT !.view =
                   IF existingIdx # 0
                   THEN [selectedLeft |-> left,
                         pairs |-> [i \in 1..(Len(view.pairs) - 1) |->
                                       IF i < existingIdx THEN view.pairs[i]
                                       ELSE view.pairs[i + 1]]]
                   ELSE IF view.selectedLeft = left
                   THEN [view EXCEPT !.selectedLeft = 0]
                   ELSE [view EXCEPT !.selectedLeft = left]]
    /\ call' = [op |-> "handleLeftClick"]
    /\ UNCHANGED <<now, schedules, log, streakVars, appVars,
                   flashcards, practiceExam, history>>

\* handleRightClick(right): the selected left item is paired with it, and
\* when all items are paired onAnswer (handleMatchingAnswer) gets the pairs
handleRightClick(right) ==
    /\ ViewEnabled
    /\ quizEngine.view.selectedLeft # 0
    /\ LET newPairs == NewPairs(quizEngine.view.pairs,
                                quizEngine.view.selectedLeft, right)
           all      == Len(newPairs) = Len(QuizQuestion.pairs)
       IN  /\ quizEngine' =
                  [quizEngine EXCEPT
                      !.view = [selectedLeft |-> 0, pairs |-> newPairs],
                      !.matchingPairs = IF all THEN [pairs |-> newPairs]
                                        ELSE @]
           /\ call' = [op       |-> IF all THEN "onAnswer"
                                     ELSE "handleRightClick",
                       pairs    |-> newPairs,
                       question |-> QuizQuestion,
                       before   |-> quizEngine.view.pairs]
    /\ UNCHANGED <<now, schedules, log, streakVars, appVars,
                   flashcards, practiceExam, history>>

\* handleMatchingSubmit, the Check Answer button, shown while the engine
\* holds an answer with as many pairs as the question
handleMatchingSubmit ==
    /\ ViewEnabled
    /\ quizEngine.matchingPairs # null
    /\ Len(quizEngine.matchingPairs.pairs) = Len(QuizQuestion.pairs)
    /\ quizEngine' = [quizEngine EXCEPT !.showExplanation = TRUE]
    /\ call' = [op |-> "handleMatchingSubmit",
                checked |-> quizEngine.matchingPairs.pairs,
                shown |-> quizEngine.view.pairs]
    /\ UNCHANGED <<now, schedules, log, streakVars, appVars,
                   flashcards, practiceExam, history>>

\* the QuizResult handleNext saves after the last question
QuizResultOf(newResults, clock) ==
    LET totalScore == ReduceMeans([i \in 1..Len(newResults) |->
                                      calculateQuestionScore(newResults[i])])
    IN  [id              |-> clock,
         date            |-> toISOString(clock),
         exam            |-> "Mixed",
         totalQuestions  |-> Len(newResults),
         correctAnswers  |-> Cardinality({i \in 1..Len(newResults) :
                                             newResults[i].correct}),
         score           |-> RoundDiv(100 * totalScore.num,
                                      totalScore.den * Len(newResults)),
         questionResults |-> newResults]

\* QuizEngine's handleNext, the Next / See Results button shown with the
\* explanation: the question's result is built from the answer the engine
\* holds; then the next question is shown, or the quiz is saved
QuizHandleNext ==
    /\ quizEngine.phase = "quiz"
    /\ quizEngine.showExplanation
    /\ LET q          == QuizQuestion
           result     == QuestionResultOf(q,
                             [answer |-> quizEngine.selectedAnswer,
                              matchingPairs |-> quizEngine.matchingPairs])
           newResults == Append(quizEngine.results, result)
           newStreak  == updateStreak(streak, now)
           today      == SplitDate(toISOString(now))
       IN  /\ call' = [op |-> "handleNext", question |-> q,
                       result |-> result, shown |-> quizEngine.view.pairs]
           /\ IF quizEngine.currentIdx < Len(quizEngine.quizQuestions) - 1
              THEN /\ quizEngine' = [quizEngine EXCEPT
                                        !.results = newResults,
                                        !.currentIdx = @ + 1,
                                        !.selectedAnswer = "null",
                                        !.matchingPairs = null,
                                        !.showExplanation = FALSE,
                                        !.view = MountedView]
                   /\ UNCHANGED <<streakVars, history>>
              ELSE /\ quizEngine' = [quizEngine EXCEPT
                                        !.results = newResults,
                                        !.phase = "results"]
                   /\ history' = [history EXCEPT !.quiz =
                                     Append(@, QuizResultOf(newResults, now))]
                   /\ streak' = newStreak
                   /\ updatedDays' = IF newStreak # streak
                                     THEN updatedDays \cup {today}
                                     ELSE updatedDays
                   /\ reupdated' = (reupdated \/
                                       (newStreak # streak
                                            /\ today \in updatedDays))
                   /\ UNCHANGED skewed
    /\ UNCHANGED <<now, schedules, log, appVars, flashcards, practiceExam>>

NextQuiz ==
    \/ \E qs \in QuizQuestionLists : startQuiz(qs)
    \/ \E answer \in OptionKeys : handleAnswer(answer)
    \/ \E left \in 1..MaxMatchItems :
          /\ quizEngine.phase = "quiz"
          /\ QuizQuestion.questionType = "matching"
          /\ left <= Len(QuizQuestion.pairs)
          /\ handleLeftClick(left)
    \/ \E right \in 1..MaxMatchItems :
          /\ quizEngine.phase = "quiz"
          /\ QuizQuestion.questionType = "matching"
          /\ right <= Len(QuizQuestion.pairs)
          /\ handleRightClick(right)
    \/ handleMatchingSubmit
    \/ QuizHandleNext

SpecQuiz == Init /\ [][NextQuiz]_vars


\* ------------------------------------------------------------ sync codes
\* generateSyncCode packs the synced keys of one device's localStorage into
\* a code, restoreSyncCode unpacks a code into another's.  In this part the
\* keys of a store are texts (sequences of characters), as the code carries
\* them.  gzip is the container with the data in a stored block: a header,
\* the bytes and a trailer holding their number (here its last digit); base64
\* is a text over another alphabet that decodes to the bytes or not at all
\* (here every byte follows a "+").

PROGRESS == <<"a", "p", "l", "u", "s", "_", "p", "r", "o", "g", "r", "e", "s", "s">>
QUIZ_HISTORY ==
    <<"a", "p", "l", "u", "s", "_", "q", "u", "i", "z", "_", "h", "i", "s", "t", "o", "r", "y">>
FLASHCARD_SCHEDULE ==
    <<"a", "p", "l", "u", "s", "_", "f", "l", "a", "s", "h", "c", "a", "r", "d", "_", "s", "c", "h", "e", "d", "u", "l", "e">>
STREAK == <<"a", "p", "l", "u", "s", "_", "s", "t", "r", "e", "a", "k">>
EXAM_RESULTS ==
    <<"a", "p", "l", "u", "s", "_", "e", "x", "a", "m", "_", "r", "e", "s", "u", "l", "t", "s">>
GLOSSARY_PROGRESS ==
    <<"a", "p", "l", "u", "s", "_", "g", "l", "o", "s", "s", "a", "r", "y", "_", "p", "r", "o", "g", "r", "e", "s", "s">>
SETTINGS == <<"a", "p", "l", "u", "s", "_", "s", "e", "t", "t", "i", "n", "g", "s">>

SYNC_PREFIX == <<"a", "P", "S", "_">>

SYNC_KEYS ==
    <<PROGRESS, QUIZ_HISTORY, FLASHCARD_SCHEDULE, STREAK, EXAM_RESULTS>>

SyncKeySet == {SYNC_KEYS[i] : i \in 1..Len(SYNC_KEYS)}

\* CompressionStream('gzip')
Gzip(text) ==
    <<"G", "Z">> \o text \o <<DigitChars[(Len(text) % 10) + 1]>>

\* DecompressionStream('gzip'): the data, or an error for what is not gzip
Gunzip(bytes) ==
    IF /\ Len(bytes) >= 3
       /\ bytes[1] = "G"
       /\ bytes[2] = "Z"
       /\ bytes[Len(bytes)] = DigitChars[((Len(bytes) - 3) % 10) + 1]
    THEN [ok |-> TRUE, value |-> SubSeq(bytes, 3, Len(bytes) - 1)]
    ELSE ParseFail

\* btoa(binary)
btoa(binary) ==
    [i \in 1..(2 * Len(binary)) |->
        IF i % 2 = 1 THEN "+" ELSE binary[i \div 2]]

\* atob(base64): the bytes, or an exception for what is not base64
atob(base64) ==
    IF /\ Len(base64) % 2 = 0
       /\ \A i \in 1..Len(base64) : i % 2 = 1 => base64[i] = "+"
    THEN [ok |-> TRUE,
          value |-> [i \in 1..(Len(base64) \div 2) |-> base64[2 * i]]]
    ELSE ParseFail

\* code.trim()
RECURSIVE Trim(_)
Trim(text) ==
    IF text # <<>> /\ text[1] \in {" ", "\n"} THEN Trim(Tail(text))
    ELSE IF text # <<>> /\ text[Len(text)] \in {" ", "\n"}
    THEN Trim(SubSeq(text, 1, Len(text) - 1))
    ELSE text

\* trimmed.startsWith(prefix)
StartsWith(text, prefix) ==
    /\ Len(text) >= Len(prefix)
    /\ SubSeq(text, 1, Len(prefix)) = prefix

\* the members of `data`: for each key of SYNC_KEYS in turn, the loaded
\* value when it is not null
RECURSIVE SyncData(_, _)
SyncData(st, keys) ==
    IF keys = <<>> THEN <<>>
    ELSE LET value == load(st, keys[1], null).value
         IN  (IF value # null THEN <<Member(keys[1], value)>> ELSE <<>>)
             \o SyncData(st, Tail(keys))

\* generateSyncCode(): the code for the store
generateSyncCode(st) ==
    SYNC_PREFIX \o btoa(Gzip(JSONstringify(JObj(SyncData(st, SYNC_KEYS)))))

\* for (const key of restoredKeys) storage.save(key, data[key])
RECURSIVE SaveAll(_, _)
SaveAll(st, members) ==
    IF members = <<>> THEN st
    ELSE SaveAll(save(st, members[1].key, members[1].value), Tail(members))

Returned(st, success, error) ==
    [threw |-> FALSE, success |-> success, error |-> error, store |-> st]

\* the body of restoreSyncCode's outer try: what it returns and the store
\* afterwards, or that it throws (a stream that is not gzip rejects)
RestoreBody(st, code) ==
    LET trimmed == Trim(code)
    IN  IF ~StartsWith(trimmed, SYNC_PREFIX)
        THEN Returned(st, FALSE, "Invalid sync code. Must start with aPS_.")
        ELSE
    LET binary == atob(SubSeq(trimmed, Len(SYNC_PREFIX) + 1, Len(trimmed)))
    IN  IF ~binary.ok
        THEN Returned(st, FALSE, "Invalid sync code. Could not decode.")
        ELSE
    LET decompressed == Gunzip(binary.value)
    IN  IF ~decompressed.ok
        THEN [threw |-> TRUE, store |-> st]
        ELSE
    LET data == JSONparse(decompressed.value)
    IN  IF ~data.ok
        THEN Returned(st, FALSE, "Invalid sync code. Could not parse data.")
        ELSE IF data.value = null \/ data.value.t \notin {"obj", "arr"}
        THEN Returned(st, FALSE, "Invalid sync code. Unexpected data format.")
        ELSE
    LET restored == IF data.value.t = "obj"
                    THEN SelectSeq(data.value.v,
                                   LAMBDA m : m.key \in SyncKeySet)
                    ELSE <<>>
    IN  IF restored = <<>>
        THEN Returned(st, FALSE,
                      "Invalid sync code. No recognizable data found.")
        ELSE Returned(SaveAll(st, restored), TRUE, "")

\* mutant: no outer try / catch
restoreSyncCode_NoCatch(st, code) == RestoreBody(st, code)

\* restoreSyncCode(code): the outer catch turns a throw into a failure
restoreSyncCode(st, code) ==
    LET r == RestoreBody(st, code)
    IN  IF r.threw
        THEN Returned(r.store, FALSE,
                 "Failed to restore sync code. The code may be corrupted.")
        ELSE r

\* the keys the stores of the two devices hold: two synced ones and one
\* that is not synced
DeviceKeys == {PROGRESS, STREAK, SETTINGS}

\* the texts stored under them
DeviceTexts == {JSONstringify(JArr(<<JNum(10)>>)), <<"n", "u", "l", "l">>}

DeviceStores == UNION {[K -> DeviceTexts] : K \in SUBSET DeviceKeys}

\* prefix, base64 and gzip around a text
Pack(text) == SYNC_PREFIX \o btoa(Gzip(text))

\* codes no device generated from data of its own, by what is wrong
BrokenCodes(kind) ==
    CASE kind = "noPrefix" ->
             {<<>>, <<" ">>, <<"x">>, Tail(Pack(<<"{", "}">>)),
              <<"a", "p", "s", "_">> \o btoa(Gzip(<<"{", "}">>))}
      [] kind = "notDecoded" ->
             {SYNC_PREFIX \o <<"!">>,
              SYNC_PREFIX \o Tail(btoa(Gzip(<<"{", "}">>)))}
      [] kind = "notDecompressed" ->
             {SYNC_PREFIX, SYNC_PREFIX \o btoa(<<"{", "}">>),
              SYNC_PREFIX \o btoa(Tail(Gzip(<<"{", "}">>))),
              SYNC_PREFIX \o btoa(Gzip(<<"{", "}">>) \o <<"0">>)}
      [] kind = "notParsed" ->
             {Pack(<<>>), Pack(<<"{">>),
              Pack(<<"{", "\"", "a", "\"", ":", "}">>)}
      [] kind = "noKeys" ->
             {Pack(JSONstringify(v)) :
                 v \in {null, JNum(7), JStr(Bar), JArr(<<JNum(10)>>),
                        JObj(<<>>), JObj(<<Member(Foo, JStr(Bar))>>),
                        JObj(<<Member(SETTINGS, JNum(7)),
                               Member(GLOSSARY_PROGRESS, JArr(<<>>))>>)}}

BrokenKinds ==
    {"noPrefix", "notDecoded", "notDecompressed", "notParsed", "noKeys"}

InitSync ==
    /\ now = 0
    /\ schedules = <<>>
    /\ log = <<>>
    /\ call = [op |-> "none"]
    /\ StreakInit
    /\ onboarding = [phase |-> "welcome", questions |-> <<>>, answers |-> <<>>]
    /\ storedProgress = <<>>
    /\ store \in DeviceStores
    /\ tabs = <<>>
    /\ ViewInit

\* restoreSyncCode(code) on this device, the store changing as it saves
Restore(kind, deviceA, code) ==
    \E r \in {restoreSyncCode(store, code)} :
        /\ store' = r.store
        /\ call' = [op |-> "restoreSyncCode", kind |-> kind,
                    deviceA |-> deviceA, code |-> code, before |-> store,
                    threw |-> r.threw,
                    success |-> IF r.threw THEN FALSE ELSE r.success,
                    error |-> IF r.threw THEN "" ELSE r.error]
        /\ UNCHANGED <<now, schedules, log, streakVars,
                       onboarding, storedProgress, tabs, viewVars>>

\* a code generated on device A is pasted, perhaps with white space around
\* it, and restored on this device
SyncRestore ==
    /\ call.op = "none"
    /\ \E deviceA \in DeviceStores, padded \in BOOLEAN :
          \E generated \in {generateSyncCode(deviceA)} :
             \E code \in {IF padded THEN <<" ">> \o generated \o <<"\n">>
                          ELSE generated} :
                Restore(IF generated = Pack(<<"{", "}">>)
                        THEN "noKeys" ELSE "generated", deviceA, code)

\* a code that is not a device's is restored
RestoreBroken ==
    /\ call.op = "none"
    /\ \E kind \in BrokenKinds :
          \E code \in BrokenCodes(kind) : Restore(kind, <<>>, code)

NextSync == SyncRestore \/ RestoreBroken

SpecSync == InitSync /\ [][NextSync]_vars


\* ================================================================ claims
\* the review events of the held schedule
Events == 1..Len(log)

\* the first k reviews of the card were all rated q
AllRated(k, q) == \A j \in 1..k : log[j].quality = q

IsReviewCall == call.op = "calculateNextReview"

\* C1: every schedule produced by calculateNextReview from a new card, under
\* any ratings, has easeFactor >= 1.3.
C1_EaseFloor ==
    /\ \A i \in 1..Len(schedules) : schedules[i].easeFactor >= MinEase
    /\ \A k \in Events : log[k].easeFactor >= MinEase

\* two lapses in a row from 2.5: the formula gives less than 1.3, the floor acts
C1_Witness ==
    /\ Len(log) >= 2
    /\ log[1].quality = Again
    /\ log[2].quality \in {Again, Hard}
    /\ log[2].easeFactor = MinEase
    /\ schedules[1].easeFactor = MinEase

\* C2: from a new card, the first Good gives interval 1 and repetitions 1, the
\* second consecutive Good interval 6 and repetitions 2, the third consecutive
\* Good an interval above 6 and repetitions 3.
C2_IntervalLadder ==
    /\ (Len(log) >= 1 /\ AllRated(1, Good)) =>
            log[1].interval = 1 /\ log[1].repetitions = 1
    /\ (Len(log) >= 2 /\ AllRated(2, Good)) =>
            log[2].interval = 6 /\ log[2].repetitions = 2
    /\ (Len(log) >= 3 /\ AllRated(3, Good)) =>
            log[3].interval > 6 /\ log[3].repetitions = 3

C2_Witness ==
    /\ Len(log) = 3
    /\ AllRated(3, Good)
    /\ schedules[1].interval = 12

\* C3: from any schedule, a rating below Good (Again or Hard) returns
\* repetitions 0 and interval 1, and the two ratings return records that differ
\* at most in the ease factor.
C3_LapseReset ==
    (IsReviewCall /\ call.quality \in {Again, Hard}) =>
        /\ call.result.repetitions = 0
        /\ call.result.interval = 1
        /\ LET other == IF call.quality = Again THEN Hard ELSE Again
               twin  == calculateNextReview(call.arg, other, call.at)
           IN  [twin EXCEPT !.easeFactor = 0] =
               [call.result EXCEPT !.easeFactor = 0]

\* a mature card with a long interval is rated Hard
C3_Witness ==
    /\ IsReviewCall
    /\ call.quality = Hard
    /\ call.arg.repetitions = 3
    /\ call.arg.interval = 10
    /\ call.arg.easeFactor = InitialEase
    /\ call.result.easeFactor < InitialEase

\* C4: a schedule returned by calculateNextReview at time `now` has lastReview
\* = now and nextReview exactly `interval` calendar days after now (same time of
\* day), interval being the returned one.
C4_DueDate ==
    IsReviewCall =>
        /\ DateParse(call.result.lastReview) = call.at
        /\ call.result.nextReview.date =
              call.result.lastReview.date + call.result.interval
        /\ call.result.nextReview.time = call.result.lastReview.time

\* a review in the middle of a day that changes the interval
C4_Witness ==
    /\ IsReviewCall
    /\ call.at % TicksPerDay # 0
    /\ call.result.interval = 6
    /\ call.arg.interval = 1

\* C5: a new card rated Good, Good, Good, Easy gets the intervals 1, 6, more
\* than 6, more than the third, and the Easy rating strictly raises the ease
\* factor.
C5_GoodGoodGoodEasy ==
    (Len(log) >= 4 /\ AllRated(3, Good) /\ log[4].quality = Easy) =>
        /\ log[1].interval = 1
        /\ log[2].interval = 6
        /\ log[3].interval > 6
        /\ log[4].interval > log[3].interval
        /\ log[4].easeFactor > log[3].easeFactor

C5_Witness ==
    /\ Len(log) = 4
    /\ AllRated(3, Good)
    /\ log[4].quality = Easy
    /\ schedules[1].interval = 26
    /\ schedules[1].repetitions = 4

\* C6: createNewCardSchedule(cardId) returns the given cardId, easeFactor 2.5,
\* interval 0, repetitions 0 and nextReview = lastReview = the creation time.
C6_NewSchedule ==
    call.op = "createNewCardSchedule" =>
        /\ call.result.cardId = call.cardId
        /\ call.result.easeFactor = 250
        /\ call.result.interval = 0
        /\ call.result.repetitions = 0
        /\ call.result.nextReview = call.result.lastReview
        /\ DateParse(call.result.lastReview) = call.at

\* a schedule created for the second card, not at the start of a day
C6_Witness ==
    /\ call.op = "createNewCardSchedule"
    /\ call.cardId = "fc-002"
    /\ call.at = TicksPerDay + 1
    /\ schedules = <<call.result>>

\* the number of Good/Easy ratings at the end of a review history
RECURSIVE TrailingSuccesses(_)
TrailingSuccesses(h) ==
    IF h = <<>> THEN 0
    ELSE IF h[Len(h)].quality \in {Good, Easy}
         THEN 1 + TrailingSuccesses(SubSeq(h, 1, Len(h) - 1))
         ELSE 0

\* C7: repetitions is the number of consecutive Good/Easy ratings at the end of
\* the card's review history (0 after Again or Hard, 0 if never reviewed).
C7_RepetitionsCount ==
    \A i \in 1..Len(schedules) :
        schedules[i].repetitions = TrailingSuccesses(log)

\* a lapse in the middle of the history: only the ratings after it count
C7_Witness ==
    /\ Len(log) = 4
    /\ log[1].quality = Easy
    /\ log[2].quality = Hard
    /\ log[3].quality = Good
    /\ log[4].quality = Easy
    /\ schedules[1].repetitions = 2

\* C8: in every schedule reached from a new card, repetitions >= 1 implies
\* interval >= 1.
C8_IntervalPositive ==
    /\ \A i \in 1..Len(schedules) :
          schedules[i].repetitions >= 1 => schedules[i].interval >= 1
    /\ \A k \in Events : log[k].repetitions >= 1 => log[k].interval >= 1

\* the first successful review of a new card (interval 0 before it)
C8_Witness ==
    /\ IsReviewCall
    /\ call.arg.interval = 0
    /\ call.arg.repetitions = 0
    /\ call.result.repetitions = 1
    /\ schedules[1] = call.result

\* C9: calculateNextReview leaves its argument as it was and returns a record
\* with the argument's cardId.
C9_ArgumentUntouched ==
    IsReviewCall =>
        /\ call.argAfter = call.arg
        /\ call.result.cardId = call.arg.cardId

\* a call whose result differs from its argument in every mutable field
C9_Witness ==
    /\ IsReviewCall
    /\ call.arg.cardId = "fc-002"
    /\ call.result.easeFactor # call.arg.easeFactor
    /\ call.result.interval # call.arg.interval
    /\ call.result.repetitions # call.arg.repetitions
    /\ call.result.nextReview # call.arg.nextReview
    /\ call.result.lastReview # call.arg.lastReview

\* timestamp s is not later than clock value t, compared field by field
NotAfter(s, t) ==
    \/ s.date < t \div TicksPerDay
    \/ s.date = t \div TicksPerDay /\ s.time <= t % TicksPerDay

\* the k-th smallest element of a set of indices
KthOf(D, k) == CHOOSE i \in D : Cardinality({j \in D : j <= i}) = k

\* C10: isDueForReview(s) is true exactly when s.nextReview <= now, and
\* getDueCards returns exactly the due schedules, in their original order.
C10_DueCards ==
    call.op = "getDueCards" =>
        LET D == {i \in 1..Len(call.arg) : NotAfter(call.arg[i].nextReview, call.at)}
        IN  /\ \A i \in 1..Len(call.arg) : call.due[i] <=> i \in D
            /\ Len(call.result) = Cardinality(D)
            /\ \A k \in 1..Len(call.result) :
                  call.result[k] = call.arg[KthOf(D, k)]

\* a list whose middle element is not due, and whose last is due this instant
C10_Witness ==
    /\ call.op = "getDueCards"
    /\ Len(call.arg) = 3
    /\ call.due = <<TRUE, FALSE, TRUE>>
    /\ DateParse(call.arg[3].nextReview) = call.at
    /\ call.arg[1].cardId = "fc-002"
    /\ call.arg[3].cardId = "fc-001"
    /\ call.result = <<call.arg[1], call.arg[3]>>


\* ------------------------------------------------------- streak tracker
IsStreakCall == call.op = "updateStreak"

\* the calendar date the clock showed during the last call
CallDay == call.at \div TicksPerDay

\* C11: when prev.lastStudyDate is today, updateStreak returns prev unchanged;
\* so a second call on the same date returns what the first call returned.
C11_SameDayIdempotent ==
    IsStreakCall =>
        /\ (call.arg # null /\ call.arg.lastStudyDate = CallDay) =>
                call.result = call.arg
        /\ \A t \in StreakClock :
                t \div TicksPerDay = CallDay =>
                    updateStreak(call.result, t) = call.result

\* a second study action, later on a day that already continued a streak
C11_Witness ==
    /\ IsStreakCall
    /\ call.arg # null
    /\ call.arg.lastStudyDate = CallDay
    /\ call.arg.currentStreak = 2
    /\ call.at % TicksPerDay = 1
    /\ streak = call.arg

\* C12: whatever the dates (gaps, dates that go backwards), longestStreak of a
\* result is never below longestStreak of the StreakData it was computed from.
C12_LongestMonotone ==
    (IsStreakCall /\ call.arg # null) =>
        call.result.longestStreak >= call.arg.longestStreak

\* a streak of two broken by a date that lies before the last study date
C12_Witness ==
    /\ IsStreakCall
    /\ call.arg # null
    /\ call.arg.longestStreak >= 2
    /\ call.result.currentStreak = 1
    /\ call.result.lastStudyDate < call.arg.lastStudyDate

\* C13: every StreakData reached from null has longestStreak >= currentStreak
\* and currentStreak >= 1.
C13_StreakInvariant ==
    /\ streak # null =>
          streak.longestStreak >= streak.currentStreak /\ streak.currentStreak >= 1
    /\ IsStreakCall =>
          /\ call.result.longestStreak >= call.result.currentStreak
          /\ call.result.currentStreak >= 1

\* a new streak growing below an older, longer one
C13_Witness ==
    /\ streak # null
    /\ streak.currentStreak = 2
    /\ streak.longestStreak = 3

\* C14: for prev = null updateStreak returns currentStreak 1, longestStreak 1
\* and lastStudyDate = today.
C14_FirstStreak ==
    (IsStreakCall /\ call.arg = null) =>
        call.result = [currentStreak |-> 1, longestStreak |-> 1,
                       lastStudyDate |-> CallDay]

\* the first study action ever, in the middle of a later day
C14_Witness ==
    /\ IsStreakCall
    /\ call.arg = null
    /\ call.at = TicksPerDay + 1
    /\ streak = call.result

\* C15: when today is exactly one day after prev.lastStudyDate the result is
\* currentStreak + 1, the larger of longestStreak and currentStreak + 1, today.
C15_ContinueStreak ==
    (IsStreakCall /\ call.arg # null /\ CallDay = call.arg.lastStudyDate + 1) =>
        /\ call.result.currentStreak = call.arg.currentStreak + 1
        /\ call.result.longestStreak =
              (IF call.arg.longestStreak >= call.arg.currentStreak + 1
               THEN call.arg.longestStreak
               ELSE call.arg.currentStreak + 1)
        /\ call.result.lastStudyDate = CallDay

\* a streak continued while an older streak is still the longest
C15_Witness ==
    /\ IsStreakCall
    /\ call.arg # null
    /\ CallDay = call.arg.lastStudyDate + 1
    /\ call.arg.currentStreak = 1
    /\ call.arg.longestStreak = 3
    /\ call.result.currentStreak = 2

\* C16: when today is two or more days after prev.lastStudyDate, or before it,
\* updateStreak returns currentStreak 1, prev's longestStreak, and today.
C16_ResetStreak ==
    (/\ IsStreakCall
     /\ call.arg # null
     /\ \/ CallDay >= call.arg.lastStudyDate + 2
        \/ CallDay < call.arg.lastStudyDate) =>
        call.result = [currentStreak |-> 1,
                       longestStreak |-> call.arg.longestStreak,
                       lastStudyDate |-> CallDay]

\* the clock was set back: today is the day before the last study date
C16_Witness ==
    /\ IsStreakCall
    /\ call.arg # null
    /\ CallDay = call.arg.lastStudyDate - 1
    /\ call.arg.currentStreak = 2
    /\ call.result.currentStreak = 1
    /\ call.result.longestStreak = 2

\* a gap of exactly two days
C16_GapReached ==
    /\ IsStreakCall
    /\ call.arg # null
    /\ CallDay = call.arg.lastStudyDate + 2
    /\ call.arg.currentStreak = 2

\* C17 as stated: over any sequence of study actions the stored StreakData
\* changes at most once per calendar date.
C17_OncePerDay == ~reupdated

\* C17, amended: as long as the clock has never been set back, the stored
\* StreakData changes at most once per calendar date.
C17_OncePerDayForwardClock == reupdated => skewed

\* three days of study on a forward clock, the last action changing nothing
C17_Witness ==
    /\ ~skewed
    /\ ~reupdated
    /\ Cardinality(updatedDays) = 3
    /\ IsStreakCall
    /\ call.arg # null
    /\ call.result = call.arg
    /\ CallDay \in updatedDays

\* ------------------------------------------------ aggregators (C18..C20)
IsReadinessCall == call.op = "calculateReadinessScore"
IsDomainScoreCall == call.op = "calculateDomainScore"

\* the sum of f over the keys in D
RECURSIVE SumOf(_, _)
SumOf(f, D) ==
    IF D = {} THEN 0
    ELSE LET d == CHOOSE x \in D : TRUE IN f[d] + SumOf(f, D \ {d})

\* the product of f over the keys in D
RECURSIVE ProdOf(_, _)
ProdOf(f, D) ==
    IF D = {} THEN 1
    ELSE LET d == CHOOSE x \in D : TRUE IN f[d] * ProdOf(f, D \ {d})

\* r is num / den rounded to the nearest integer, a half rounding up
IsRounded(r, num, den) ==
    /\ (2 * r - 1) * den <= 2 * num
    /\ 2 * num < (2 * r + 1) * den

\* the total of the weights of a readiness call
TotalWeight == SumOf(call.domainWeights, DOMAIN call.domainWeights)

\* the weighted sum of a readiness call, a domain without a score counting 0
WeightedSum ==
    LET W == call.domainWeights
        S == call.domainScores
        products == [d \in DOMAIN W |->
                        W[d] * (IF d \in DOMAIN S THEN S[d] ELSE 0)]
    IN  SumOf(products, DOMAIN W)

\* C18: for domain scores in [0, 100] and non-negative weights the readiness
\* score is an integer in [0, 100].
C18_ReadinessInRange ==
    (/\ IsReadinessCall
     /\ \A d \in DOMAIN call.domainScores : call.domainScores[d] \in 0..100
     /\ \A d \in DOMAIN call.domainWeights : call.domainWeights[d] >= 0) =>
        call.result \in 0..100

\* the weights total 150 and every weighted domain scores 100
C18_Witness ==
    /\ IsReadinessCall
    /\ TotalWeight = 150
    /\ WeightedSum = 15000
    /\ call.result = 100

\* C19: the readiness score is round(sum of score * weight / sum of weight)
\* over the domains of domainWeights, a domain without a score counting as 0
\* and a total weight of 0 giving 0; scores {A: 100, B: 50} with weights
\* {A: 25, B: 75} give 63.
C19_ReadinessWeightedMean ==
    IsReadinessCall =>
        /\ IF TotalWeight = 0
           THEN call.result = 0
           ELSE IsRounded(call.result, WeightedSum, TotalWeight)
        /\ (/\ call.domainScores = ("1.0" :> 100 @@ "2.0" :> 50)
            /\ call.domainWeights = ("1.0" :> 25 @@ "2.0" :> 75)) =>
               call.result = 63

\* the example of the claim: 62.5 rounds to 63
C19_Witness ==
    /\ IsReadinessCall
    /\ call.domainScores = ("1.0" :> 100 @@ "2.0" :> 50)
    /\ call.domainWeights = ("1.0" :> 25 @@ "2.0" :> 75)
    /\ call.result = 63

\* a weighted domain without a score pulls the result down
C19_MissingScoreReached ==
    /\ IsReadinessCall
    /\ call.domainScores = ("1.0" :> 100)
    /\ call.domainWeights = ("1.0" :> 25 @@ "2.0" :> 75)
    /\ call.result = 25

\* a total weight of 0 with scores present
C19_ZeroWeightReached ==
    /\ IsReadinessCall
    /\ call.domainScores = ("1.0" :> 100)
    /\ call.domainWeights = ("1.0" :> 0)
    /\ call.result = 0

\* the indices of the records of a domain-score call that hold a quiz score
Scored ==
    {i \in 1..Len(call.progress) : Len(call.progress[i].quizScores) > 0}

\* the quizScores of the records of a domain-score call, in order
QuizScoresOf == [i \in 1..Len(call.progress) |-> call.progress[i].quizScores]

\* C20: calculateDomainScore is the rounded mean of the per-objective means
\* over the records with at least one quiz score, and 0 for an empty list or
\* when no record has a score; records [90] and [70] give 80.
C20_DomainScoreMeanOfMeans ==
    IsDomainScoreCall =>
        LET lens == [i \in Scored |-> Len(QuizScoresOf[i])]
            L    == ProdOf(lens, Scored)
            sums == [i \in Scored |->
                        SumOf(QuizScoresOf[i], 1..lens[i]) * (L \div lens[i])]
        IN  /\ IF Scored = {}
               THEN call.result = 0
               ELSE IsRounded(call.result, SumOf(sums, Scored),
                              L * Cardinality(Scored))
            /\ QuizScoresOf = <<(<<90>>), (<<70>>)>> => call.result = 80

\* a record without scores between [90] and [70] is left out of the mean
C20_Witness ==
    /\ IsDomainScoreCall
    /\ QuizScoresOf = <<(<<90>>), <<>>, (<<70>>)>>
    /\ call.result = 80

\* the example of the claim
C20_ExampleReached ==
    /\ IsDomainScoreCall
    /\ QuizScoresOf = <<(<<90>>), (<<70>>)>>
    /\ call.result = 80

\* records that hold no score at all
C20_NoScoresReached ==
    /\ IsDomainScoreCall
    /\ QuizScoresOf = <<<<>>, <<>>>>
    /\ call.result = 0

\* ------------------------------------------------ mastery (C21, C22)
IsMasteryCall == call.op = "calculateMastery"

\* C21: calculateMastery returns not_started for no scores, mastered when
\* the mean of the scores is at least 80 (exactly 80 included), and
\* in_progress otherwise.
C21_Mastery ==
    IsMasteryCall =>
        LET n   == Len(call.scores)
            sum == SumOf(call.scores, 1..n)
        IN  call.result = IF n = 0 THEN "not_started"
                          ELSE IF sum >= 80 * n THEN "mastered"
                          ELSE "in_progress"

\* a mean of exactly 80
C21_Witness ==
    /\ IsMasteryCall
    /\ call.scores = <<70, 90>>
    /\ call.result = "mastered"

\* the cases of the tests, and a mean just under 80
C21_CasesReached ==
    /\ IsMasteryCall
    /\ \/ call.scores = <<>> /\ call.result = "not_started"
       \/ call.scores = <<50, 60, 70>> /\ call.result = "in_progress"
       \/ call.scores = <<80, 90, 85>> /\ call.result = "mastered"
       \/ call.scores = <<79, 80, 80>> /\ call.result = "in_progress"

\* C22: in every stored ObjectiveProgress record, after every write that
\* creates or changes it (the onboarding seeding included), mastery is the
\* classification calculateMastery computes from the record's quizScores.
C22_MasteryDerived ==
    \A i \in 1..Len(storedProgress) :
        storedProgress[i].mastery =
            calculateMastery(storedProgress[i].quizScores)

\* a seeded record whose only answer was correct
C22_SeededReached ==
    /\ Len(storedProgress) = 1
    /\ storedProgress[1].quizScores = <<Whole(50)>>
    /\ storedProgress[1].mastery = "in_progress"

\* ------------------------------------------- question scores (C23, C24)
IsQuestionScoreCall == call.op = "calculateQuestionScore"

\* C23: for every multiple-choice QuestionResult, calculateQuestionScore
\* returns 1 if and only if correct is true, and 0 otherwise.
C23_MultipleChoiceScore ==
    (IsQuestionScoreCall /\ call.arg.questionType = "multiple-choice") =>
        /\ call.result \in {Whole(0), Whole(1)}
        /\ call.result = Whole(1) <=> call.arg.correct

\* an answered question with the wrong key scores 0
C23_Witness ==
    /\ IsQuestionScoreCall
    /\ call.arg.questionType = "multiple-choice"
    /\ call.arg.selectedAnswer = "B"
    /\ call.question.correct = "A"
    /\ ~call.arg.correct
    /\ call.result = Whole(0)

\* the right key scores 1
C23_CorrectReached ==
    /\ IsQuestionScoreCall
    /\ call.arg.questionType = "multiple-choice"
    /\ call.arg.correct
    /\ call.result = Whole(1)

\* C24: for every matching QuestionResult, calculateQuestionScore returns
\* correctPairs / totalPairs, and 0 (a number, not NaN) when totalPairs is 0.
C24_MatchingScore ==
    (IsQuestionScoreCall /\ call.arg.questionType = "matching") =>
        /\ call.result.den > 0
        /\ IF call.arg.totalPairs = 0
           THEN call.result.num = 0
           ELSE call.result.num * call.arg.totalPairs =
                    call.arg.correctPairs * call.result.den

\* a matching question without pairs scores 0
C24_Witness ==
    /\ IsQuestionScoreCall
    /\ call.arg.questionType = "matching"
    /\ call.arg.totalPairs = 0
    /\ call.result = Whole(0)

\* one pair right out of two
C24_HalfReached ==
    /\ IsQuestionScoreCall
    /\ call.arg.questionType = "matching"
    /\ call.arg.totalPairs = 2
    /\ call.arg.correctPairs = 1
    /\ ~call.arg.correct
    /\ call.result = [num |-> 1, den |-> 2]

C25_ObjectReached ==
    /\ call.op = "load"
    /\ "aplus_test" \in DOMAIN store
    /\ call.key = "aplus_test"
    /\ call.result = JObj(<<Member(Foo, JStr(Bar))>>)

\* C26: storage.load(k, d) returns the default d (null when none is given)
\* when key k is not stored or its text cannot be parsed; it raises no error
\* and leaves the stored data as it was.
C26_LoadDefault ==
    [][(/\ call'.op = "load"
        /\ \/ call'.key \notin DOMAIN store
           \/ ~JSONparse(store[call'.key]).ok) =>
           (/\ call'.result = call'.defaultValue
            /\ ~call'.threw
            /\ store' = store)]_vars

\* a text that is not JSON under the key, read with the default []
C26_Witness ==
    /\ call.op = "load"
    /\ call.key = "aplus_test"
    /\ "aplus_test" \in DOMAIN store
    /\ store["aplus_test"] = <<"{">>
    /\ call.defaultValue = JArr(<<>>)
    /\ call.result = JArr(<<>>)
    /\ ~call.threw

\* a key that is not stored, read without a default
C26_MissingReached ==
    /\ call.op = "load"
    /\ call.key \notin DOMAIN store
    /\ call.defaultValue = null
    /\ call.result = null

\* ------------------------------------------ scheduler (C27, C28, C30)
\* the SM-2 adjustment of the ease factor for a quality, in hundredths
Delta(quality) ==
    CASE quality = Again -> -80
      [] quality = Hard  -> -32
      [] quality = Good  -> -14
      [] quality = Easy  -> 10

\* C27: calculateNextReview sets the ease factor, before it computes the
\* interval, to max(1.3, ef + delta(q)) with delta -0.80 for Again, -0.32
\* for Hard, -0.14 for Good and +0.10 for Easy; Hard lowers an ease factor
\* of 2.5 and Easy raises it.
C27_EaseDelta ==
    IsReviewCall =>
        /\ call.result.easeFactor =
               Max(130, call.arg.easeFactor + Delta(call.quality))
        /\ (call.arg.easeFactor = 250 /\ call.quality = Hard) =>
               call.result.easeFactor < 250
        /\ (call.arg.easeFactor = 250 /\ call.quality = Easy) =>
               call.result.easeFactor > 250
        /\ (call.quality \in {Good, Easy} /\ call.result.repetitions >= 3) =>
               IsRounded(call.result.interval,
                         call.arg.interval * Max(130, call.arg.easeFactor
                                                      + Delta(call.quality)),
                         100)

\* Hard takes 2.5 to 2.18
C27_Witness ==
    /\ IsReviewCall
    /\ call.arg.easeFactor = 250
    /\ call.quality = Hard
    /\ call.result.easeFactor = 218

\* Easy takes 2.5 to 2.6
C27_EasyReached ==
    /\ IsReviewCall
    /\ call.arg.easeFactor = 250
    /\ call.quality = Easy
    /\ call.result.easeFactor = 260

\* C28: on Good or Easy the repetitions grow by one, and from the third
\* repetition on the new interval is round(previous interval * updated ease
\* factor): the ease factor this rating produced, the interval before it.
C28_IntervalUsesUpdatedEase ==
    (IsReviewCall /\ call.quality \in {Good, Easy}) =>
        /\ call.result.repetitions = call.arg.repetitions + 1
        /\ call.result.repetitions >= 3 =>
               IsRounded(call.result.interval,
                         call.arg.interval * call.result.easeFactor, 100)

\* interval 6 and ease 2.5 rated Good: round(6 * 2.36) = 14, where the ease
\* factor before the rating would give 15
C28_Witness ==
    /\ IsReviewCall
    /\ call.quality = Good
    /\ call.arg.repetitions = 2
    /\ call.arg.interval = 6
    /\ call.arg.easeFactor = 250
    /\ call.result.repetitions = 3
    /\ call.result.easeFactor = 236
    /\ call.result.interval = 14

\* C30: for a card reached from a new schedule by reviews, a Good or Easy
\* review of a card with at least 2 repetitions gives an interval strictly
\* greater than the interval before the review.
C30_IntervalGrows ==
    (/\ IsReviewCall
     /\ call.quality \in {Good, Easy}
     /\ call.arg.repetitions >= 2) =>
        call.result.interval > call.arg.interval

\* the ease factor at its floor: Again, Again, then three times Good
C30_Witness ==
    /\ IsReviewCall
    /\ Len(log) = 5
    /\ log[1].quality = Again
    /\ log[2].quality = Again
    /\ call.quality = Good
    /\ call.arg.repetitions = 2
    /\ call.arg.easeFactor = 130
    /\ call.arg.interval = 6
    /\ call.result.interval = 8

\* ------------------------------------------------- concurrent tabs (C29)
Happened(tab, op, key) ==
    \E i \in 1..Len(log) : log[i] = Event(tab, op, key)

Pos(tab, op, key) == CHOOSE i \in 1..Len(log) : log[i] = Event(tab, op, key)

\* both tabs have loaded and saved the key, each load before either save
BothLoadBeforeSaves(key) ==
    /\ \A t \in Tabs : Happened(t, "load", key) /\ Happened(t, "save", key)
    /\ \A t, u \in Tabs : Pos(t, "load", key) < Pos(u, "save", key)

LastWriter(key) ==
    CHOOSE t \in Tabs :
        \A u \in Tabs : Pos(u, "save", key) <= Pos(t, "save", key)

EarlierWriter(key) == CHOOSE t \in Tabs : t # LastWriter(key)

OfCard(list, cardId) == SelectSeq(list, LAMBDA x : x.cardId = cardId)

\* C29: load, compute, save is not atomic.  When two tabs interleave it on
\* the same key, both loading before either saves, the stored value after
\* both saves is the last writer's value, computed from the value both
\* loaded, and the earlier writer's update is lost.
C29_LastWriterWins ==
    /\ BothLoadBeforeSaves("schedule") =>
          LET last  == tabs[LastWriter("schedule")]
              first == tabs[EarlierWriter("schedule")]
          IN  /\ schedules = last.currentSchedules
              /\ last.loadedSchedules = first.loadedSchedules
              /\ first.cardId # last.cardId =>
                     OfCard(schedules, first.cardId) =
                         OfCard(first.loadedSchedules, first.cardId)
    /\ BothLoadBeforeSaves("streak") =>
          LET last  == tabs[LastWriter("streak")]
              first == tabs[EarlierWriter("streak")]
          IN  /\ streak = last.newStreak
              /\ last.loadedStreak = first.loadedStreak

\* two tabs rate different cards, both loading the empty list: one card's
\* schedule is stored, the other tab's is gone
C29_Witness ==
    /\ BothLoadBeforeSaves("schedule")
    /\ \A t \in Tabs : tabs[t].pc = "done"
    /\ tabs["tab1"].cardId # tabs["tab2"].cardId
    /\ Len(schedules) = 1
    /\ schedules[1].cardId = tabs[LastWriter("schedule")].cardId
    /\ OfCard(schedules, tabs[EarlierWriter("schedule")].cardId) = <<>>

\* two tabs study on consecutive days, both loading no streak: the stored
\* streak is 1, the earlier day is gone
C29_StreakLostReached ==
    /\ BothLoadBeforeSaves("streak")
    /\ tabs[EarlierWriter("streak")].newStreak.lastStudyDate = 0
    /\ tabs[LastWriter("streak")].newStreak.lastStudyDate = 1
    /\ streak = [currentStreak |-> 1, longestStreak |-> 1, lastStudyDate |-> 1]

\* ------------------------------------------------------ due dates (C31)
\* C31: a newly created schedule is due at once; after any review the
\* schedule has interval >= 1, is not due before `interval` days have passed
\* since the review, is due from then on and stays due until the next review.
C31_DueAfterInterval ==
    \A i \in 1..Len(schedules) :
        LET s       == schedules[i]
            elapsed == now - DateParse(s.lastReview)
        IN  IF log = <<>>
            THEN isDueForReview(s, now)
            ELSE /\ s.interval >= 1
                 /\ isDueForReview(s, now) <=>
                        elapsed >= s.interval * TicksPerDay

\* a reviewed card on the tick its interval of one day has passed
C31_Witness ==
    /\ Len(schedules) = 1
    /\ log # <<>>
    /\ schedules[1].interval = 1
    /\ now - DateParse(schedules[1].lastReview) = TicksPerDay
    /\ isDueForReview(schedules[1], now)

\* a reviewed card one tick after the review, not yet due
C31_NotYetDueReached ==
    /\ Len(schedules) = 1
    /\ log # <<>>
    /\ now - DateParse(schedules[1].lastReview) = 1
    /\ ~isDueForReview(schedules[1], now)


\* ------------------------------------------- the Flashcards session (C32-34)
IsRatingCall == call.op = "handleRating"

AllCards == {allFlashcards[i] : i \in 1..Len(allFlashcards)}

\* C32: after any sequence of ratings in one tab the stored schedule list
\* holds at most one entry for each card, and a rating creates or replaces the
\* entry of the rated card only: that card has exactly one entry afterwards,
\* the update of its former entry or of a new schedule, and the entries of
\* every other card are the ones stored before.
C32_OneEntryPerCard ==
    /\ \A c \in AllCards : Len(OfCard(schedules, c)) <= 1
    /\ IsRatingCall =>
          /\ \A c \in AllCards \ {call.cardId} :
                 OfCard(call.after, c) = OfCard(call.before, c)
          /\ OfCard(call.after, call.cardId) =
                 <<calculateNextReview(
                       IF OfCard(call.before, call.cardId) = <<>>
                       THEN createNewCardSchedule(call.cardId, call.at)
                       ELSE OfCard(call.before, call.cardId)[1],
                       call.quality, call.at)>>

\* a card that has an entry is rated again while another card has one too
C32_Witness ==
    /\ IsRatingCall
    /\ OfCard(call.before, call.cardId) # <<>>
    /\ Len(call.before) >= 2
    /\ call.after # call.before

\* a card without an entry is rated while another card has one
C32_CreatedReached ==
    /\ IsRatingCall
    /\ OfCard(call.before, call.cardId) = <<>>
    /\ call.before # <<>>

\* C33: in a session with Due Only on, every card that matched the filter
\* when the session began has been presented for rating by the time the
\* session is complete: no card is skipped.
C33_NoCardSkipped ==
    (flashcards.dueOnly /\ flashcards.sessionDone) =>
        flashcards.atStart \subseteq flashcards.presented

\* C34: the session is never in a state where it is not complete, the
\* filtered list is not empty and the index points past the end of the list,
\* so that no card is shown and none can be rated.
C34_NeverStuck ==
    ~ /\ ~flashcards.sessionDone
      /\ flashcards.filteredCards # <<>>
      /\ ~HasCurrentCard(flashcards)


\* ------------------------------------------------- the exam's timer (C35)
IsTimerSubmit == call.op = "timer"

\* C35: when the timer reaches zero the exam is submitted, and the result
\* recorded is computed from the answers entered up to that moment, as the
\* result of a manual submit at that moment would be, with the whole time
\* limit, or the time elapsed at the last tick, as the time spent.
C35_TimerSubmitsEnteredAnswers ==
    IsTimerSubmit =>
        /\ practiceExam.phase = "results"
        /\ history.exam[Len(history.exam)] = call.result
        /\ call.result.questionResults = call.manual.questionResults
        /\ call.result.score = call.manual.score
        /\ call.result.correctAnswers = call.manual.correctAnswers
        /\ call.result.passed = call.manual.passed
        /\ call.result.domainScores = call.manual.domainScores
        /\ call.result.timeSpent \in {call.manual.timeSpent, ExamSeconds}


\* --------------------------------------------- the matching view (C36-37)
UniqueItems(pairs) ==
    \A i, j \in 1..Len(pairs) :
        i # j => /\ pairs[i].left # pairs[j].left
                 /\ pairs[i].right # pairs[j].right

\* C36: after any sequence of clicks on left and right items, every left
\* item and every right item of the matching view is in at most one pair, and
\* onAnswer is called only with a list of as many pairs as the question has.
C36_PairsAreAMatching ==
    /\ quizEngine.phase = "quiz" => UniqueItems(quizEngine.view.pairs)
    /\ call.op = "onAnswer" =>
          /\ Len(call.pairs) = Len(call.question.pairs)
          /\ UniqueItems(call.pairs)

\* onAnswer is called with two or more pairs, the first of them wrong
C36_Witness ==
    /\ call.op = "onAnswer"
    /\ Len(call.pairs) >= 2
    /\ call.pairs[1].left # call.pairs[1].right

\* a click on a right item that was paired gives it to the selected left
\* item: the pair is replaced, not added
C36_ReplacedReached ==
    /\ call.op = "handleRightClick"
    /\ call.before # <<>>
    /\ Len(call.pairs) = Len(call.before)

\* C37: the answer the quiz engine holds for a matching question is the
\* list of pairs shown in the matching view: the pairs checked by Check
\* Answer and scored by Next are the pairs shown, and un-pairing an item
\* after all were paired withdraws the answer.
C37_ScoredPairsAreShown ==
    /\ (quizEngine.phase = "quiz" /\ quizEngine.matchingPairs # null) =>
           quizEngine.matchingPairs.pairs = quizEngine.view.pairs
    /\ call.op = "handleMatchingSubmit" => call.checked = call.shown
    /\ (call.op = "handleNext" /\ call.question.questionType = "matching") =>
           call.result.selectedPairs = call.shown


\* --------------------------------------------- correct and the score (C38)
ScoreIsOne == call.result.num = call.result.den

ZeroPairs ==
    /\ call.arg.questionType = "matching"
    /\ call.arg.totalPairs = 0

\* C38 as stated: for every QuestionResult, 0 <= correctPairs <= totalPairs
\* and correct is true if and only if the question's score is 1, a matching
\* question with zero pairs included.
C38_CorrectIffScoreOne ==
    IsQuestionScoreCall =>
        /\ call.arg.questionType = "matching" =>
               /\ 0 <= call.arg.correctPairs
               /\ call.arg.correctPairs <= call.arg.totalPairs
        /\ call.arg.correct <=> ScoreIsOne

\* C38, amended: for every QuestionResult, 0 <= correctPairs <= totalPairs,
\* and correct is true if and only if the question's score is 1, except for
\* a matching question with zero pairs, where correct is true and the score
\* is 0.
C38_CorrectIffScoreOneUnlessZeroPairs ==
    IsQuestionScoreCall =>
        /\ call.arg.questionType = "matching" =>
               /\ 0 <= call.arg.correctPairs
               /\ call.arg.correctPairs <= call.arg.totalPairs
        /\ IF ZeroPairs
           THEN call.arg.correct /\ call.result.num = 0
           ELSE call.arg.correct <=> ScoreIsOne

\* the result of a matching question with zero pairs is scored
C38_Witness ==
    /\ IsQuestionScoreCall
    /\ ZeroPairs
    /\ call.arg.correct

\* a matching question with some pairs right and some wrong is scored
C38_PartialReached ==
    /\ IsQuestionScoreCall
    /\ call.arg.questionType = "matching"
    /\ 0 < call.arg.correctPairs
    /\ call.arg.correctPairs < call.arg.totalPairs
    /\ ~call.arg.correct


\* ------------------------------------------------- sync codes (C39, C40)
IsRestoreCall == call.op = "restoreSyncCode"

\* C39: restoreSyncCode never raises; for a code that lacks the aPS_ prefix,
\* cannot be decoded, decompressed or parsed, or holds none of the recognised
\* keys, it returns success = false with an error message and leaves every
\* storage key as it was.
C39_BrokenCodeFails ==
    IsRestoreCall =>
        /\ ~call.threw
        /\ call.kind # "generated" =>
               /\ ~call.success
               /\ call.error # ""
               /\ store = call.before

\* a code that is base64 but not gzip is restored on a device that has data
C39_Witness ==
    /\ IsRestoreCall
    /\ call.kind = "notDecompressed"
    /\ ~call.success
    /\ store # <<>>

\* a code generated on a device without synced data is refused
C39_EmptyDeviceReached ==
    /\ IsRestoreCall
    /\ call.kind = "noKeys"
    /\ call.deviceA # <<>>
    /\ ~call.success

\* C40: after generateSyncCode on device A and a successful restoreSyncCode
\* of the code on device B, each of the five synced keys holds on B the value
\* it held on A, and no other key of B has changed.
C40_RestoredEqualsSource ==
    (IsRestoreCall /\ call.kind = "generated" /\ call.success) =>
        /\ \A key \in SyncKeySet :
               load(store, key, null).value =
                   load(call.deviceA, key, null).value
        /\ \A key \in (DOMAIN store \cup DOMAIN call.before) \ SyncKeySet :
               /\ key \in DOMAIN store
               /\ key \in DOMAIN call.before
               /\ store[key] = call.before[key]
====
